---- MODULE Spec2Model ----
(***************************************************************************)
(* Model of the UCPL schema converter (src/scripts/ucpl_to_schema.py).     *)
(*                                                                         *)
(* Text is a sequence of one-character strings, so that strip, split,      *)
(* startswith and the regular expressions of the converter are computed    *)
(* character by character.  Python values carry their type as a tag        *)
(* (str, int, list, dict, none) so that isinstance tests, None and the     *)
(* difference between {} and [] are kept.  A dict carries its keys in the  *)
(* order of insertion, which is the order json.dumps writes them in.       *)
(***************************************************************************)
EXTENDS Integers, Sequences, FiniteSets, TLC

\* The attributes of the converter and the position of its parser.
VARIABLES lines, i, stack, schema, current_macro, in_workflow,
          workflow_steps, pc, header, returned

\* The attributes of the validator (errors, warnings, info), the argument
\* and the result of its last validate_file, and the locals of
\* validate_directory.
VARIABLES errors, warnings, info, file_path, is_valid,
          ucpl_files, file_index, valid_count, total_count, printed, validation

converter_vars == <<lines, i, stack, schema, current_macro, in_workflow,
                    workflow_steps, pc, header, returned>>

validator_vars == <<errors, warnings, info, file_path, is_valid,
                    ucpl_files, file_index, valid_count, total_count, printed,
                    validation>>

vars == <<lines, i, stack, schema, current_macro, in_workflow,
          workflow_steps, pc, header, returned,
          errors, warnings, info, file_path, is_valid,
          ucpl_files, file_index, valid_count, total_count, printed, validation>>

(***************************************************************************)
(* Bounds of the model.                                                    *)
(***************************************************************************)
MaxLines == 3

(***************************************************************************)
(* Python values.                                                          *)
(***************************************************************************)
PyStr(s) == [str |-> s]

PyInt(n) == [int |-> n]

PyList(q) == [list |-> q]

\* A dict: the mapping f and its keys ks in the order of insertion.
PyDict(ks, f) == [dict |-> f, keys |-> ks]

None == [none |-> TRUE]

EmptyDict == PyDict(<<>>, <<>>)

EmptyList == PyList(<<>>)

IsDict(v) == "dict" \in DOMAIN v

IsList(v) == "list" \in DOMAIN v

IsNone(v) == "none" \in DOMAIN v

Has(d, k) == k \in DOMAIN d.dict

Get(d, k) == d.dict[k]

\* d[k] = v: a new key goes last, a key that is present keeps its place.
Put(d, k, v) ==
    PyDict(IF k \in DOMAIN d.dict THEN d.keys ELSE Append(d.keys, k),
           [x \in (DOMAIN d.dict) \cup {k} |-> IF x = k THEN v ELSE d.dict[x]])

\* del d[k]
Del(d, k) ==
    PyDict(SelectSeq(d.keys, LAMBDA x : x # k),
           [x \in (DOMAIN d.dict) \ {k} |-> d.dict[x]])

Put2(d, k1, k2, v) == Put(d, k1, Put(Get(d, k1), k2, v))

Put3(d, k1, k2, k3, v) == Put(d, k1, Put2(Get(d, k1), k2, k3, v))

Put4(d, k1, k2, k3, k4, v) == Put(d, k1, Put3(Get(d, k1), k2, k3, k4, v))

ListAppend(l, v) == PyList(Append(l.list, v))

\* Python truthiness of a container or string value (bool(x)).
Truthy(v) ==
    IF IsDict(v) THEN DOMAIN v.dict # {}
    ELSE IF IsList(v) THEN Len(v.list) > 0
    ELSE IF IsNone(v) THEN FALSE
    ELSE IF "str" \in DOMAIN v THEN Len(v.str) > 0
    ELSE v.int # 0

(***************************************************************************)
(* Python string methods on sequences of characters.                       *)
(***************************************************************************)
Whitespace == {" ", "\t"}

Digits == {"0", "1", "2", "3", "4", "5", "6", "7", "8", "9"}

Letters == {"a", "b", "c", "d", "e", "f", "g", "h", "i", "j", "k", "l", "m",
            "n", "o", "p", "q", "r", "s", "t", "u", "v", "w", "x", "y", "z"}

\* \w of the re module.
WordChars == Letters \cup Digits \cup {"_"}

RECURSIVE lstrip(_)
lstrip(s) == IF Len(s) > 0 /\ Head(s) \in Whitespace THEN lstrip(Tail(s)) ELSE s

RECURSIVE rstrip(_)
rstrip(s) ==
    IF Len(s) > 0 /\ s[Len(s)] \in Whitespace
    THEN rstrip(SubSeq(s, 1, Len(s) - 1)) ELSE s

strip(s) == rstrip(lstrip(s))

startswith(s, p) == Len(s) >= Len(p) /\ SubSeq(s, 1, Len(p)) = p

\* Positions at which sub occurs in s.
Occurrences(s, sub) ==
    {k \in 1..(Len(s) - Len(sub) + 1) : SubSeq(s, k, k + Len(sub) - 1) = sub}

\* sub in s
contains(s, sub) == Occurrences(s, sub) # {}

\* s.find(sub), 1-based; 0 when absent.
find(s, sub) ==
    IF Occurrences(s, sub) = {} THEN 0
    ELSE CHOOSE k \in Occurrences(s, sub) : \A j \in Occurrences(s, sub) : k <= j

\* s.split(sep)
RECURSIVE split(_, _)
split(s, sep) ==
    LET k == find(s, sep) IN
    IF k = 0 THEN <<s>>
    ELSE <<SubSeq(s, 1, k - 1)>> \o split(SubSeq(s, k + Len(sep), Len(s)), sep)

\* s.split(sep, 1)
split1(s, sep) ==
    LET k == find(s, sep) IN
    IF k = 0 THEN <<s>>
    ELSE <<SubSeq(s, 1, k - 1), SubSeq(s, k + Len(sep), Len(s))>>

\* Length of the longest prefix of s made of characters of set cs.
RECURSIVE span(_, _)
span(s, cs) == IF Len(s) > 0 /\ Head(s) \in cs THEN 1 + span(Tail(s), cs) ELSE 0

drop(s, n) == SubSeq(s, n + 1, Len(s))

take(s, n) == SubSeq(s, 1, n)

\* Length of the longest prefix of s made of characters outside set cs.
RECURSIVE span_not(_, _)
span_not(s, cs) ==
    IF Len(s) > 0 /\ Head(s) \notin cs THEN 1 + span_not(Tail(s), cs) ELSE 0

\* s.split(): the whitespace-separated words of s.
RECURSIVE split_ws(_)
split_ws(s) ==
    LET t == lstrip(s)
        n == span_not(t, Whitespace)
    IN IF Len(t) = 0 THEN <<>> ELSE <<take(t, n)>> \o split_ws(drop(t, n))

DigitValue(c) ==
    CASE c = "0" -> 0 [] c = "1" -> 1 [] c = "2" -> 2 [] c = "3" -> 3
      [] c = "4" -> 4 [] c = "5" -> 5 [] c = "6" -> 6 [] c = "7" -> 7
      [] c = "8" -> 8 [] c = "9" -> 9

\* int of the first digit only, as if the pattern captured (\d).
int_first_digit(s) == DigitValue(s[1])

\* int(s) for a non-empty string of decimal digits.
RECURSIVE int(_)
int(s) ==
    IF Len(s) = 0 THEN 0
    ELSE 10 * int(SubSeq(s, 1, Len(s) - 1)) + DigitValue(s[Len(s)])

(***************************************************************************)
(* The regular expressions of the converter, matched at the start of the   *)
(* string as re.match does.  Each operator returns <<>> for no match or a  *)
(* one-element sequence holding the record of the groups.                  *)
(***************************************************************************)

\* re.match(r'(\d+)\.(.+)', s)
step_match(s) ==
    LET n == span(s, Digits) IN
    IF n >= 1 /\ Len(s) >= n + 2 /\ s[n + 1] = "."
    THEN <<[g1 |-> take(s, n), g2 |-> drop(s, n + 1)]>>
    ELSE <<>>

\* re.match(r'@def\s+(\w+):', s)
macro_match(s) ==
    LET p  == <<"@", "d", "e", "f">>
        r  == drop(s, 4)
        ws == span(r, Whitespace)
        r2 == drop(r, ws)
        n  == span(r2, WordChars)
    IN IF startswith(s, p) /\ ws >= 1 /\ n >= 1 /\ Len(r2) > n /\ r2[n + 1] = ":"
       THEN <<[g1 |-> take(r2, n)]>>
       ELSE <<>>

\* re.match(r'@if\s+(.+?):\s*(.+)', s): \s+ is greedy (longest run first),
\* (.+?) is lazy (shortest first), and (.+) needs one character after the
\* colon; \s* gives back whitespace when the rest is only whitespace.
condition_match(s) ==
    LET p    == <<"@", "i", "f">>
        r    == drop(s, 3)
        maxw == span(r, Whitespace)
        \* <<w, k>>: w whitespace characters, then a group of k characters,
        \* then a colon followed by at least one character
        Ok(w, k) == /\ Len(r) >= w + k + 2
                    /\ r[w + k + 1] = ":"
        ws   == {w \in 1..maxw : \E k \in 1..Len(r) : Ok(w, k)}
        w0   == CHOOSE w \in ws : \A x \in ws : x <= w
        k0   == CHOOSE k \in 1..Len(r) : Ok(w0, k) /\ \A x \in 1..(k - 1) : ~Ok(w0, x)
        rest == drop(r, w0 + k0 + 1)
        g2   == IF Len(lstrip(rest)) > 0 THEN lstrip(rest)
                ELSE drop(rest, Len(rest) - 1)
    IN IF startswith(s, p) /\ ws # {}
       THEN <<[g1 |-> SubSeq(r, w0 + 1, w0 + k0), g2 |-> g2]>>
       ELSE <<>>

\* re.match(r'@for\s+(\$\w+)\s+in\s+(\$\w+):', s)
for_match(s) ==
    LET p   == <<"@", "f", "o", "r">>
        r   == drop(s, 4)
        w1  == span(r, Whitespace)
        r1  == drop(r, w1)
        n1  == IF Len(r1) > 0 /\ r1[1] = "$" THEN span(Tail(r1), WordChars) ELSE 0
        r2  == drop(r1, n1 + 1)
        w2  == span(r2, Whitespace)
        r3  == drop(r2, w2)
        r4  == drop(r3, 2)
        w3  == span(r4, Whitespace)
        r5  == drop(r4, w3)
        n2  == IF Len(r5) > 0 /\ r5[1] = "$" THEN span(Tail(r5), WordChars) ELSE 0
        r6  == drop(r5, n2 + 1)
    IN IF /\ startswith(s, p) /\ w1 >= 1 /\ n1 >= 1 /\ w2 >= 1
          /\ startswith(r3, <<"i", "n">>) /\ w3 >= 1 /\ n2 >= 1
          /\ Len(r6) > 0 /\ r6[1] = ":"
       THEN <<[g1 |-> take(r1, n1 + 1), g2 |-> take(r5, n2 + 1)]>>
       ELSE <<>>

\* re.match(r'@@(\w+):(\w+)(?:\[(.+?)\])?', s); g3 is <<>> when the optional
\* group did not take part in the match, else <<text>>.
tool_match(s) ==
    LET r   == drop(s, 2)
        n1  == span(r, WordChars)
        r1  == drop(r, n1)
        r2  == drop(r1, 1)
        n2  == span(r2, WordChars)
        r3  == drop(r2, n2)
        \* lengths k >= 1 of a bracketed text closed by "]"
        ks  == {k \in 1..Len(r3) : Len(r3) >= k + 2 /\ r3[k + 2] = "]"}
        k0  == CHOOSE k \in ks : \A x \in ks : k <= x
        g3  == IF Len(r3) > 0 /\ r3[1] = "[" /\ ks # {}
               THEN <<SubSeq(r3, 2, k0 + 1)>> ELSE <<>>
    IN IF /\ startswith(s, <<"@", "@">>) /\ n1 >= 1
          /\ Len(r1) > 0 /\ r1[1] = ":" /\ n2 >= 1
       THEN <<[g1 |-> take(r, n1), g2 |-> take(r2, n2), g3 |-> g3]>>
       ELSE <<>>

(***************************************************************************)
(* String literals of the converter.                                       *)
(***************************************************************************)
K_role == <<"@", "r", "o", "l", "e", ":">>

K_task == <<"@", "t", "a", "s", "k", ":">>

K_scope == <<"@", "s", "c", "o", "p", "e", ":">>

K_principles == <<"@", "p", "r", "i", "n", "c", "i", "p", "l", "e", "s", ":">>

K_out == <<"@", "o", "u", "t", ":">>

K_def == <<"@", "d", "e", "f", " ">>

K_use == <<"@", "u", "s", "e", " ">>

K_workflow == <<"@", "w", "o", "r", "k", "f", "l", "o", "w", ":">>

K_chain == <<"@", "c", "h", "a", "i", "n", ":">>

K_if == <<"@", "i", "f", " ">>

K_loop == <<"@", "l", "o", "o", "p", ":">>

K_until == <<"@", "u", "n", "t", "i", "l", " ">>

K_for == <<"@", "f", "o", "r", " ">>

K_tool == <<"@", "@">>

K_store == <<">", " ", "$">>

A_call_macro == <<"c", "a", "l", "l", "_", "m", "a", "c", "r", "o">>

A_loop == <<"l", "o", "o", "p">>

A_for_each == <<"f", "o", "r", "_", "e", "a", "c", "h">>

A_invoke_tool == <<"i", "n", "v", "o", "k", "e", "_", "t", "o", "o", "l">>

A_unknown == <<"u", "n", "k", "n", "o", "w", "n">>

T_sequential == <<"s", "e", "q", "u", "e", "n", "t", "i", "a", "l">>

T_format == <<"u", "c", "p", "l", "-", "s", "c", "h", "e", "m", "a", "-", "v", "1">>

(***************************************************************************)
(* UCPLSchemaConverter.__init__                                            *)
(***************************************************************************)
EmptyConstraints ==
    PyDict(<<"must", "optional", "avoid">>,
           [must |-> EmptyList, optional |-> EmptyList, avoid |-> EmptyList])

\* The initial schema as one object that every converter shares: a
\* converter made after a compilation starts from what the schema has
\* become.
SharedSchema ==
    IF returned = <<>>
    THEN PyDict(<<"format", "meta", "context", "task", "constraints", "workflow",
                  "macros", "output">>,
                [format      |-> PyStr(T_format),
                 meta        |-> EmptyDict,
                 context     |-> EmptyDict,
                 task        |-> EmptyDict,
                 constraints |-> EmptyConstraints,
                 workflow    |-> None,
                 macros      |-> EmptyDict,
                 output      |-> EmptyDict])
    ELSE schema

InitSchema ==
    PyDict(<<"format", "meta", "context", "task", "constraints", "workflow",
             "macros", "output">>,
           [format      |-> PyStr(T_format),
            meta        |-> EmptyDict,
            context     |-> EmptyDict,
            task        |-> EmptyDict,
            constraints |-> EmptyConstraints,
            workflow    |-> None,
            macros      |-> EmptyDict,
            output      |-> EmptyDict])

\* The value of schema["workflow"] once _parse_workflow has stored it: its
\* "steps" entry is the list object self.workflow_steps itself, so it shows
\* every later append.  The variable schema keeps the entry without the
\* steps; Schema is the dictionary as a reader of self.schema sees it.
WorkflowEntry == PyDict(<<"type">>, [type |-> PyStr(T_sequential)])

\* The dictionary with a list of its own that holds the numbered steps only.
SchemaNumberedSteps ==
    IF IsNone(Get(schema, "workflow")) THEN schema
    ELSE Put2(schema, "workflow", "steps",
              PyList(SelectSeq(workflow_steps, LAMBDA s : Has(s, "step"))))

Schema ==
    IF IsNone(Get(schema, "workflow")) THEN schema
    ELSE Put2(schema, "workflow", "steps", PyList(workflow_steps))

(***************************************************************************)
(* _parse_tool_invocation                                                  *)
(***************************************************************************)
\* The loop with the map reset at every pair: only the last pair is kept.
tool_params_last_only(parts, params) ==
    IF Len(parts) = 0 THEN params
    ELSE LET param == parts[Len(parts)]
             kv    == split1(param, <<"=">>)
         IN IF contains(param, <<"=">>)
            THEN Put(EmptyDict, strip(kv[1]), PyStr(strip(kv[2])))
            ELSE EmptyDict

RECURSIVE tool_params(_, _)
tool_params(parts, params) ==
    IF Len(parts) = 0 THEN params
    ELSE LET param == Head(parts)
             kv    == split1(param, <<"=">>)
         IN tool_params(Tail(parts),
                IF contains(param, <<"=">>)
                THEN Put(params, strip(kv[1]), PyStr(strip(kv[2])))
                ELSE params)

\* The parser without the final return: a line that does not match gives
\* an empty record.
parse_tool_invocation_no_sentinel(line) ==
    LET tool_match_ == tool_match(line) IN
    IF Len(tool_match_) = 0 THEN EmptyDict
    ELSE LET g    == tool_match_[1]
             tool == PyDict(<<"category", "subcategory">>,
                            [category |-> PyStr(g.g1), subcategory |-> PyStr(g.g2)])
         IN PyDict(<<"action", "tool">>,
                   [action |-> PyStr(A_invoke_tool),
                    tool   |-> IF Len(g.g3) > 0 /\ Len(g.g3[1]) > 0
                               THEN Put(tool, "parameters",
                                        tool_params(split(g.g3[1], <<",">>), EmptyDict))
                               ELSE tool])

parse_tool_invocation(line) ==
    LET tool_match_ == tool_match(line) IN
    IF Len(tool_match_) = 0 THEN PyDict(<<"action">>, [action |-> PyStr(A_unknown)])
    ELSE LET g    == tool_match_[1]
             tool == PyDict(<<"category", "subcategory">>,
                            [category |-> PyStr(g.g1), subcategory |-> PyStr(g.g2)])
         IN PyDict(<<"action", "tool">>,
                   [action |-> PyStr(A_invoke_tool),
                    tool   |-> IF Len(g.g3) > 0 /\ Len(g.g3[1]) > 0
                               THEN Put(tool, "parameters",
                                        tool_params(split(g.g3[1], <<",">>), EmptyDict))
                               ELSE tool])

\* f"${var}"
dollar(var) == <<"$">> \o var

\* The strings of a list of parts as a Python list of str.
str_list(parts) == PyList([k \in 1..Len(parts) |-> PyStr(parts[k])])

\* line.split(':', 1)[1].strip()
payload(line) == strip(split1(line, <<":">>)[2])

(***************************************************************************)
(* The state of a converter while _parse_ucpl_content runs.  One cursor i  *)
(* serves every loop: a sub-parser starts at the index it is given and     *)
(* its caller continues at the index it returns.  stack holds the block    *)
(* parsers that are active, innermost last; the top-level loop runs when   *)
(* it is empty.  Indices are 1-based: the source's index k is k + 1 here.  *)
(* A frame keeps the index argument of the call that created it.           *)
(***************************************************************************)
MacroFrame(name, index) ==
    [fn |-> "parse_macro_definition", macro_name |-> name, index |-> index]

WorkflowFrame(index) ==
    [fn |-> "parse_workflow", macro_name |-> <<>>, index |-> index]

State ==
    [i |-> i, stack |-> stack, schema |-> schema, current_macro |-> current_macro,
     in_workflow |-> in_workflow, workflow_steps |-> workflow_steps, pc |-> pc]

\* An exception leaves the method that raises it and, as nothing in the
\* converter catches it, every caller up to and including parse_file; the
\* attributes of the converter stay as they were when it was raised.
Raise(st) == [st EXCEPT !.pc = "raised"]

\* sys.getrecursionlimit() of CPython unless the caller changes it: a call
\* that would make the Python call stack deeper raises RecursionError.
RecursionLimit == 1000

\* The frames below the loops of the converter when main() runs it: the
\* module, main, parse_file and _parse_ucpl_content.
BaseFrames == 4

\* The depth of the call stack while the loop of the innermost active
\* parser runs: every block parser was called by a _parse_directive that
\* was called by the loop below it.  Only the methods of the converter are
\* counted; what they call in the standard library nests deeper still.
Depth(st) == BaseFrames + 2 * Len(st.stack)

\* The frame of _parse_directive, called by a loop, cannot be created.
DirectiveOverflow(st) == Depth(st) + 1 > RecursionLimit

\* The frame of a method called by _parse_directive cannot be created.
CallOverflow(st) == Depth(st) + 2 > RecursionLimit

NewMacro ==
    PyDict(<<"steps", "context", "constraints">>,
           [steps       |-> EmptyList,
            context     |-> EmptyDict,
            constraints |-> EmptyConstraints])

\* _parse_macro_definition with an entry that is made only when the name
\* has none.
parse_macro_definition_setdefault(st, index) ==
    LET line        == strip(lines[index])
        macro_match_ == macro_match(line)
    IN IF Len(macro_match_) = 0
       THEN [st EXCEPT !.i = index + 1]
       ELSE LET macro_name == macro_match_[1].g1 IN
            IF ~Has(st.schema, "macros")
            THEN Raise([st EXCEPT !.current_macro = PyStr(macro_name)])
            ELSE [st EXCEPT !.current_macro = PyStr(macro_name),
                            !.schema = IF Has(Get(st.schema, "macros"), macro_name)
                                       THEN st.schema
                                       ELSE Put2(st.schema, "macros", macro_name, NewMacro),
                            !.i = index + 1,
                            !.stack = Append(st.stack, MacroFrame(macro_name, index))]

\* _parse_macro_definition up to the start of its loop; the loop itself is
\* MacroLine and MacroReturn.
parse_macro_definition(st, index) ==
    LET line        == strip(lines[index])
        macro_match_ == macro_match(line)
    IN IF Len(macro_match_) = 0
       THEN [st EXCEPT !.i = index + 1]
       ELSE LET macro_name == macro_match_[1].g1 IN
            IF ~Has(st.schema, "macros")
            THEN Raise([st EXCEPT !.current_macro = PyStr(macro_name)])
            ELSE [st EXCEPT !.current_macro = PyStr(macro_name),
                            !.schema = Put2(st.schema, "macros", macro_name, NewMacro),
                            !.i = index + 1,
                            !.stack = Append(st.stack, MacroFrame(macro_name, index))]

\* _parse_conditional
parse_conditional(st, index) ==
    LET line             == strip(lines[index])
        condition_match_ == condition_match(line)
    IN IF Len(condition_match_) > 0
       THEN LET condition == strip(condition_match_[1].g1)
                action    == strip(condition_match_[1].g2)
                step      == PyDict(<<"condition", "action">>,
                                    [condition |-> PyDict(<<"if">>, [if |-> PyStr(condition)]),
                                     action    |-> PyStr(action)])
            IN [st EXCEPT !.workflow_steps = Append(st.workflow_steps, step),
                          !.i = index + 1]
       ELSE [st EXCEPT !.i = index + 1]

\* _parse_loop
parse_loop(st, index) ==
    LET loop_step == PyDict(<<"action", "loop">>,
                            [action |-> PyStr(A_loop),
                             loop   |-> PyDict(<<"steps">>, [steps |-> EmptyList])])
    IN [st EXCEPT !.workflow_steps = Append(st.workflow_steps, loop_step),
                  !.i = index + 1]

\* _parse_for_loop with the two groups of the match exchanged.
parse_for_loop_exchanged(st, index) ==
    LET line       == strip(lines[index])
        for_match_ == for_match(line)
    IN IF Len(for_match_) > 0
       THEN LET loop_step == PyDict(<<"action", "variable", "iterable", "steps">>,
                                    [action   |-> PyStr(A_for_each),
                                     variable |-> PyStr(for_match_[1].g2),
                                     iterable |-> PyStr(for_match_[1].g1),
                                     steps    |-> EmptyList])
            IN [st EXCEPT !.workflow_steps = Append(st.workflow_steps, loop_step),
                          !.i = index + 1]
       ELSE [st EXCEPT !.i = index + 1]

\* _parse_for_loop
parse_for_loop(st, index) ==
    LET line       == strip(lines[index])
        for_match_ == for_match(line)
    IN IF Len(for_match_) > 0
       THEN LET loop_step == PyDict(<<"action", "variable", "iterable", "steps">>,
                                    [action   |-> PyStr(A_for_each),
                                     variable |-> PyStr(for_match_[1].g1),
                                     iterable |-> PyStr(for_match_[1].g2),
                                     steps    |-> EmptyList])
            IN [st EXCEPT !.workflow_steps = Append(st.workflow_steps, loop_step),
                          !.i = index + 1]
       ELSE [st EXCEPT !.i = index + 1]

\* The "until" assignment of _parse_directive on the last step.
set_until(steps, condition) ==
    [steps EXCEPT ![Len(steps)] = Put(steps[Len(steps)], "until", PyStr(condition))]

\* The task assignment with split('|', 1): the focus is one unsplit entry.
set_task_split_once(sch, task_spec) ==
    IF contains(task_spec, <<"|">>)
    THEN LET parts == split1(task_spec, <<"|">>) IN
         Put2(Put2(sch, "task", "primary", PyStr(parts[1])),
              "task", "focus", str_list(Tail(parts)))
    ELSE Put2(sch, "task", "primary", PyStr(task_spec))

\* The task assignment of _parse_directive: primary and, with a "|", focus.
set_task(sch, task_spec) ==
    IF contains(task_spec, <<"|">>)
    THEN LET parts == split(task_spec, <<"|">>) IN
         Put2(Put2(sch, "task", "primary", PyStr(parts[1])),
              "task", "focus", str_list(Tail(parts)))
    ELSE Put2(sch, "task", "primary", PyStr(task_spec))

\* _parse_directive; a call of _parse_workflow starts its loop at index + 1
\* (WorkflowLine and WorkflowReturn).  A subscript of self.schema with a key
\* that _cleanup_schema has deleted raises KeyError.
parse_directive(st, index) ==
    LET line == strip(lines[index]) IN
    IF DirectiveOverflow(st)
    THEN Raise(st)
    ELSE IF startswith(line, K_role)
    THEN IF ~Has(st.schema, "context") THEN Raise(st)
         ELSE [st EXCEPT !.schema = Put2(st.schema, "context", "role", PyStr(payload(line))),
                         !.i = index + 1]
    ELSE IF startswith(line, K_task)
    THEN IF ~Has(st.schema, "task") THEN Raise(st)
         ELSE [st EXCEPT !.schema = set_task(st.schema, payload(line)),
                         !.i = index + 1]
    ELSE IF startswith(line, K_scope)
    THEN IF ~Has(st.schema, "task") THEN Raise(st)
         ELSE [st EXCEPT !.schema = Put2(st.schema, "task", "scope", PyStr(payload(line))),
                         !.i = index + 1]
    ELSE IF startswith(line, K_principles)
    THEN IF ~Has(st.schema, "context") THEN Raise(st)
         ELSE [st EXCEPT !.schema = Put2(st.schema, "context", "principles",
                                         str_list(split(payload(line), <<"+">>))),
                         !.i = index + 1]
    ELSE IF startswith(line, K_out)
    THEN IF ~Has(st.schema, "output") THEN Raise(st)
         ELSE [st EXCEPT !.schema = Put2(st.schema, "output", "format",
                                         str_list(split(payload(line), <<"+">>))),
                         !.i = index + 1]
    ELSE IF startswith(line, K_def)
    THEN IF CallOverflow(st) THEN Raise(st)
         ELSE parse_macro_definition(st, index)
    ELSE IF startswith(line, K_use)
    THEN LET macro_name == split_ws(line)[2]
             has_var    == contains(line, K_store)
             var        == IF has_var THEN split(line, K_store)[2] ELSE <<>>
             step       == PyDict(<<"action", "macro", "store">>,
                                  [action |-> PyStr(A_call_macro),
                                   macro  |-> PyStr(macro_name),
                                   store  |-> IF has_var /\ Len(var) > 0
                                              THEN PyStr(dollar(var)) ELSE None])
         IN [st EXCEPT !.workflow_steps =
                           IF contains(line, <<">">>) THEN Append(st.workflow_steps, step)
                           ELSE st.workflow_steps,
                       !.i = index + 1]
    ELSE IF startswith(line, K_workflow)
    THEN IF CallOverflow(st) THEN Raise([st EXCEPT !.in_workflow = TRUE])
         ELSE [st EXCEPT !.in_workflow = TRUE,
                         !.i = index + 1,
                         !.stack = Append(st.stack, WorkflowFrame(index + 1))]
    ELSE IF startswith(line, K_chain)
    THEN [st EXCEPT !.i = index + 1]
    ELSE IF startswith(line, K_if)
    THEN IF CallOverflow(st) THEN Raise(st)
         ELSE parse_conditional(st, index)
    ELSE IF startswith(line, K_loop)
    THEN IF CallOverflow(st) THEN Raise(st)
         ELSE parse_loop(st, index)
    ELSE IF startswith(line, K_until)
    THEN LET condition == strip(split(line, K_until)[2]) IN
         [st EXCEPT !.workflow_steps =
                        IF Len(st.workflow_steps) > 0
                        THEN set_until(st.workflow_steps, condition)
                        ELSE st.workflow_steps,
                    !.i = index + 1]
    ELSE IF startswith(line, K_for)
    THEN IF CallOverflow(st) THEN Raise(st)
         ELSE parse_for_loop(st, index)
    ELSE IF startswith(line, K_tool)
    THEN IF CallOverflow(st) THEN Raise(st)
         ELSE [st EXCEPT !.workflow_steps =
                             Append(st.workflow_steps, parse_tool_invocation(line)),
                         !.i = index + 1]
    ELSE [st EXCEPT !.i = index + 1]

(***************************************************************************)
(* _parse_macro_definition: the loop over the macro body.                  *)
(***************************************************************************)
Indent == <<" ", " ">>

\* A test that a blank line passes as well.
BlockEndAtBlank(k) ==
    /\ ~startswith(lines[k], Indent)
    /\ ~startswith(strip(lines[k]), <<"@">>)

\* The test that ends a macro block or a workflow block at lines[k]: a
\* non-blank line that neither starts with two spaces nor, once stripped,
\* with "@".
BlockEnd(k) ==
    /\ Len(strip(lines[k])) > 0
    /\ ~startswith(lines[k], Indent)
    /\ ~startswith(strip(lines[k]), <<"@">>)

MacroAppend(sch, macro_name, kind, text) ==
    Put4(sch, "macros", macro_name, "constraints", kind,
         ListAppend(Get(Get(Get(Get(sch, "macros"), macro_name), "constraints"), kind),
                    PyStr(text)))

\* The task assignment of the macro body: context.task and, with "|", focus.
set_macro_task(sch, macro_name, task) ==
    IF contains(task, <<"|">>)
    THEN LET parts == split(task, <<"|">>) IN
         Put4(Put4(sch, "macros", macro_name, "context", "task", PyStr(parts[1])),
              "macros", macro_name, "context", "focus", str_list(Tail(parts)))
    ELSE Put4(sch, "macros", macro_name, "context", "task", PyStr(task))

\* The macro body with "@role:" handed to the document.
macro_content_with_role(sch, macro_name, line) ==
    IF startswith(line, K_task)
    THEN set_macro_task(sch, macro_name, payload(line))
    ELSE IF startswith(line, <<"!">>)
    THEN MacroAppend(sch, macro_name, "must", Tail(line))
    ELSE IF startswith(line, <<"?">>)
    THEN MacroAppend(sch, macro_name, "optional", Tail(line))
    ELSE IF startswith(line, <<"~">>)
    THEN MacroAppend(sch, macro_name, "avoid", Tail(line))
    ELSE IF startswith(line, <<"@">>) /\ startswith(line, K_out)
    THEN Put3(sch, "macros", macro_name, "output",
              str_list(split(payload(line), <<"+">>)))
    ELSE IF startswith(line, K_role)
    THEN Put2(sch, "context", "role", PyStr(payload(line)))
    ELSE sch

\* One non-blank line of the macro body.
macro_content(sch, macro_name, line) ==
    IF startswith(line, K_task)
    THEN set_macro_task(sch, macro_name, payload(line))
    ELSE IF startswith(line, <<"!">>)
    THEN MacroAppend(sch, macro_name, "must", Tail(line))
    ELSE IF startswith(line, <<"?">>)
    THEN MacroAppend(sch, macro_name, "optional", Tail(line))
    ELSE IF startswith(line, <<"~">>)
    THEN MacroAppend(sch, macro_name, "avoid", Tail(line))
    ELSE IF startswith(line, <<"@">>) /\ startswith(line, K_out)
    THEN Put3(sch, "macros", macro_name, "output",
              str_list(split(payload(line), <<"+">>)))
    ELSE sch

\* The loop of a block parser is over: end of input, or break.
BlockOver == IF i > Len(lines) THEN TRUE ELSE BlockEnd(i)

InMacro == pc = "parse" /\ Len(stack) > 0 /\ stack[Len(stack)].fn = "parse_macro_definition"

InWorkflow == pc = "parse" /\ Len(stack) > 0 /\ stack[Len(stack)].fn = "parse_workflow"

AtTopLevel == pc = "parse" /\ Len(stack) = 0

Pop(q) == SubSeq(q, 1, Len(q) - 1)

\* One iteration of the macro loop that stays in the loop.
MacroLine ==
    /\ InMacro
    /\ ~BlockOver
    /\ LET line       == strip(lines[i])
           macro_name == stack[Len(stack)].macro_name
       IN schema' = IF Len(line) = 0 THEN schema
                    ELSE macro_content(schema, macro_name, line)
    /\ i' = i + 1
    /\ UNCHANGED <<lines, stack, current_macro, in_workflow, workflow_steps, pc,
                   header, returned>>
    /\ UNCHANGED validator_vars

\* The return of the macro block parser without the reset of current_macro.
MacroReturnKeepsMacro ==
    /\ InMacro
    /\ BlockOver
    /\ stack' = Pop(stack)
    /\ UNCHANGED <<lines, i, schema, current_macro, in_workflow, workflow_steps, pc,
                   header, returned>>
    /\ UNCHANGED validator_vars

\* The macro loop ends (end of input or break); the parser clears
\* current_macro and returns i to its caller.
MacroReturn ==
    /\ InMacro
    /\ BlockOver
    /\ current_macro' = None
    /\ stack' = Pop(stack)
    /\ UNCHANGED <<lines, i, schema, in_workflow, workflow_steps, pc, header, returned>>
    /\ UNCHANGED validator_vars

(***************************************************************************)
(* _parse_workflow: the loop over the workflow block.                      *)
(***************************************************************************)
\* The step object of a numbered line.
numbered_step(g) ==
    LET step_num     == int(g.g1)
        step_content == strip(g.g2)
        step_obj     == PyDict(<<"step">>, [step |-> PyInt(step_num)])
        with_store(o) ==
            IF contains(step_content, K_store)
            THEN Put(o, "store", PyStr(dollar(strip(split(step_content, K_store)[2]))))
            ELSE o
    IN IF startswith(step_content, K_use)
       THEN with_store(Put(Put(step_obj, "action", PyStr(A_call_macro)),
                           "macro", PyStr(split_ws(step_content)[2])))
       ELSE IF startswith(step_content, K_task)
       THEN with_store(Put(step_obj, "action", PyStr(payload(step_content))))
       ELSE IF startswith(step_content, K_if)
       THEN LET condition_match_ == condition_match(step_content) IN
            IF Len(condition_match_) > 0
            THEN Put(Put(step_obj, "condition",
                         PyDict(<<"if">>, [if |-> PyStr(strip(condition_match_[1].g1))])),
                     "action", PyStr(strip(condition_match_[1].g2)))
            ELSE step_obj
       ELSE IF startswith(step_content, K_loop)
       THEN Put(Put(step_obj, "action", PyStr(A_loop)), "loop", EmptyDict)
       ELSE Put(step_obj, "action", PyStr(step_content))

\* One iteration of the workflow loop that stays in the loop.
WorkflowLine ==
    /\ InWorkflow
    /\ ~BlockOver
    /\ \E st \in {LET line        == strip(lines[i])
                      step_match_ == step_match(line)
                  IN IF Len(line) = 0 THEN [State EXCEPT !.i = i + 1]
                     ELSE IF Len(step_match_) > 0
                     THEN [State EXCEPT !.workflow_steps =
                                            Append(workflow_steps,
                                                   numbered_step(step_match_[1])),
                                        !.i = i + 1]
                     ELSE IF startswith(line, <<"@">>)
                     THEN parse_directive(State, i)
                     ELSE [State EXCEPT !.i = i + 1]} :
          /\ i' = st.i
          /\ stack' = st.stack
          /\ schema' = st.schema
          /\ current_macro' = st.current_macro
          /\ in_workflow' = st.in_workflow
          /\ workflow_steps' = st.workflow_steps
          /\ pc' = st.pc
    /\ UNCHANGED <<lines, header, returned>>
    /\ UNCHANGED validator_vars

\* The workflow loop ends; the parser stores the workflow when there are
\* steps and returns i to its caller.
WorkflowReturn ==
    /\ InWorkflow
    /\ BlockOver
    /\ schema' = IF Len(workflow_steps) > 0
                 THEN Put(schema, "workflow", WorkflowEntry)
                 ELSE schema
    /\ stack' = Pop(stack)
    /\ UNCHANGED <<lines, i, current_macro, in_workflow, workflow_steps, pc,
                   header, returned>>
    /\ UNCHANGED validator_vars

(***************************************************************************)
(* _parse_ucpl_content: the top-level loop.                                *)
(***************************************************************************)
Append2(sch, k1, k2, text) ==
    Put2(sch, k1, k2, ListAppend(Get(Get(sch, k1), k2), PyStr(text)))

TopLevelLine ==
    /\ AtTopLevel
    /\ i <= Len(lines)
    /\ \E st \in {LET line == strip(lines[i])
                  IN IF Len(line) = 0 \/ startswith(line, <<"#">>)
                     THEN [State EXCEPT !.i = i + 1]
                     ELSE IF startswith(line, <<"@">>)
                     THEN parse_directive(State, i)
                     ELSE IF startswith(line, <<"!">>)
                     THEN IF ~Has(schema, "constraints") THEN Raise(State)
                          ELSE [State EXCEPT !.schema = Append2(schema, "constraints", "must", Tail(line)),
                                             !.i = i + 1]
                     ELSE IF startswith(line, <<"?">>)
                     THEN IF ~Has(schema, "constraints") THEN Raise(State)
                          ELSE [State EXCEPT !.schema = Append2(schema, "constraints", "optional", Tail(line)),
                                             !.i = i + 1]
                     ELSE IF startswith(line, <<"~">>)
                     THEN IF ~Has(schema, "constraints") THEN Raise(State)
                          ELSE [State EXCEPT !.schema = Append2(schema, "constraints", "avoid", Tail(line)),
                                             !.i = i + 1]
                     ELSE [State EXCEPT !.i = i + 1]} :
          /\ i' = st.i
          /\ stack' = st.stack
          /\ schema' = st.schema
          /\ current_macro' = st.current_macro
          /\ in_workflow' = st.in_workflow
          /\ workflow_steps' = st.workflow_steps
          /\ pc' = st.pc
    /\ UNCHANGED <<lines, header, returned>>
    /\ UNCHANGED validator_vars

(***************************************************************************)
(* _cleanup_schema                                                         *)
(***************************************************************************)
cleanup_schema(sch) ==
    LET empty(k) == \/ IsDict(Get(sch, k)) /\ ~Truthy(Get(sch, k))
                    \/ IsList(Get(sch, k)) /\ ~Truthy(Get(sch, k))
        s1       == PyDict(SelectSeq(sch.keys, LAMBDA x : ~empty(x)),
                           [k \in {x \in DOMAIN sch.dict : ~empty(x)} |-> Get(sch, k)])
    IN IF Has(s1, "constraints")
          /\ ~(\E k \in DOMAIN Get(s1, "constraints").dict :
                   Truthy(Get(Get(s1, "constraints"), k)))
       THEN Del(s1, "constraints")
       ELSE s1

(***************************************************************************)
(* parse_file                                                              *)
(***************************************************************************)
L_blank == <<>>

L_plain == <<"p">>

L_def_a == <<"@", "d", "e", "f", " ", "a", ":">>

L_def_b == <<"@", "d", "e", "f", " ", "b", ":">>

L_def_bad == <<"@", "d", "e", "f", " ", ":">>

L_must_x == <<"!", "x">>

L_must_x_in == <<" ", " ", "!", "x">>

L_opt_y_in == <<" ", " ", "?", "y">>

L_avoid_z_in == <<" ", " ", "~", "z">>

L_task_focus == <<"@", "t", "a", "s", "k", ":", " ", "r", "f", "|", "p", "e", "r", "f", "|", "r", "e", "a", "d">>

L_task_plain == <<"@", "t", "a", "s", "k", ":", " ", "t", "i", "d", "y">>

L_out == <<"@", "o", "u", "t", ":", " ", "j", "+", "m">>

L_role == <<"@", "r", "o", "l", "e", ":", " ", "e">>

L_workflow == <<"@", "w", "o", "r", "k", "f", "l", "o", "w", ":">>

L_step_1 == <<" ", " ", "1", ".", " ", "x">>

L_step_3_task == <<" ", " ", "3", ".", " ", "@", "t", "a", "s", "k", ":", " ", "b", " ", ">", " ", "$", "o">>

L_step_12_use == <<" ", " ", "1", "2", ".", " ", "@", "u", "s", "e", " ", "m">>

L_until == <<"@", "u", "n", "t", "i", "l", " ", "t">>

L_until_twice == <<"@", "u", "n", "t", "i", "l", " ", "a", " ", "@", "u", "n", "t", "i", "l", " ", "b">>

L_tool_params == <<"@", "@", "s", "e", "a", "r", "c", "h", ":", "w", "e", "b", "[", "q", "u", "e", "r", "y", "=", "c", "a", "t", "s", ",", "l", "i", "m", "i", "t", "=", "5", "]">>

L_tool == <<"@", "@", "s", "e", "a", "r", "c", "h", ":", "w", "e", "b">>

L_loop == <<"@", "l", "o", "o", "p", ":">>

L_if == <<"@", "i", "f", " ", "c", ":", " ", "x">>

L_for == <<"@", "f", "o", "r", " ", "$", "x", " ", "i", "n", " ", "$", "y", ":">>

L_use_store == <<"@", "u", "s", "e", " ", "m", " ", ">", " ", "$", "v">>

L_chain == <<"@", "c", "h", "a", "i", "n", ":">>

L_tool_bad == <<"@", "@", "b", "a", "d">>

L_tool_nocat == <<"@", "@", ":", "x">>

L_out_gap == <<"@", "o", "u", "t", ":", " ", "a", "+", "+", "b">>

L_principles == <<"@", "p", "r", "i", "n", "c", "i", "p", "l", "e", "s", ":", " ", "a", "+", "b">>

L_principles_empty == <<"@", "p", "r", "i", "n", "c", "i", "p", "l", "e", "s", ":">>

L_if_bad == <<"@", "i", "f", " ", "c">>

L_for_bad == <<"@", "f", "o", "r", " ", "x">>

L_step_if_bad == <<" ", " ", "4", ".", " ", "@", "i", "f", " ", "c">>

\* The lines that documents are made of.
Catalogue ==
    {L_blank,
     L_plain,
     L_def_a,
     L_def_b,
     L_def_bad,
     L_must_x,
     L_must_x_in,
     L_opt_y_in,
     L_avoid_z_in,
     L_task_focus,
     L_task_plain,
     L_out,
     L_role,
     L_workflow,
     L_step_1,
     L_step_3_task,
     L_step_12_use,
     L_until,
     L_until_twice,
     L_tool_params,
     L_tool,
     L_loop,
     L_if,
     L_for,
     L_use_store}

\* The lines of the documents about macros, tasks and constraints.
MacroCatalogue ==
    {L_blank, L_plain, L_def_a, L_def_b, L_def_bad, L_must_x, L_must_x_in,
     L_opt_y_in, L_task_focus, L_task_plain, L_out, L_workflow}

\* The lines of the documents about workflows and steps.
WorkflowCatalogue ==
    {L_plain, L_def_a, L_workflow, L_step_1, L_step_3_task, L_step_12_use,
     L_until, L_until_twice, L_tool_params, L_tool, L_loop, L_if, L_for,
     L_use_store}

\* The lines of the documents about "@chain:", tool invocations and list
\* directives.
DirectiveCatalogue ==
    {L_plain, L_def_a, L_workflow, L_chain, L_step_1, L_tool_bad, L_tool_nocat,
     L_out, L_out_gap, L_principles, L_principles_empty}

\* The lines of the documents about malformed lines.
MalformedCatalogue ==
    {L_plain, L_def_a, L_def_bad, L_workflow, L_step_1, L_step_if_bad,
     L_tool_bad, L_if_bad, L_for_bad}

\* The lines of the documents that are compiled more than once.
RepeatCatalogue ==
    {L_plain, L_role, L_principles, L_def_a, L_must_x_in, L_must_x, L_workflow,
     L_step_1, L_tool_params}

\* The lines of the documents given to a converter that is used again.
ReuseCatalogue == {L_must_x, L_role, L_def_a, L_workflow, L_step_1}

\* _extract_ucpl_content strips the body before it is split into lines: a
\* body is the single empty line, or it starts and ends with a character
\* that is not whitespace.
Stripped(doc) ==
    \/ doc = <<L_blank>>
    \/ /\ Len(doc[1]) > 0 /\ doc[1][1] \notin Whitespace
       /\ Len(doc[Len(doc)]) > 0 /\ doc[Len(doc)][Len(doc[Len(doc)])] \notin Whitespace

\* The bodies of at most MaxLines lines over a set of lines.
Documents(catalogue) ==
    {doc \in UNION {[1..n -> catalogue \cup {L_blank}] : n \in 1..MaxLines} : Stripped(doc)}

\* The number of lines of the deeply nested document.
DeepLines == 500

\* A body in which every line is a "@workflow:" header: each header is
\* handled by the workflow loop that the header before it started.
DeepDocument == [k \in 1..DeepLines |-> L_workflow]

\* What _extract_yaml_header returns: None, or the mapping of the header.
Headers == {None, PyDict(<<"version">>, [version |-> PyStr(<<"1">>)])}

\* d.update(h): the items of h are assigned in the order of h.
RECURSIVE update_keys(_, _, _)
update_keys(d, h, ks) ==
    IF Len(ks) = 0 THEN d
    ELSE update_keys(Put(d, Head(ks), h.dict[Head(ks)]), h, Tail(ks))

update(d, h) == update_keys(d, h, h.keys)

\* parse_file up to the call of _parse_ucpl_content, and the first
\* statements of _parse_ucpl_content.  The update of self.schema["meta"]
\* raises KeyError when _cleanup_schema has deleted that key.
parse_file(headers, documents) ==
    /\ \E h \in headers, doc \in documents :
          /\ header' = h
          /\ IF Truthy(h) /\ ~Has(schema, "meta")
             THEN /\ pc' = "raised"
                  /\ UNCHANGED <<lines, i, schema>>
             ELSE /\ schema' = IF Truthy(h)
                               THEN Put(schema, "meta", update(Get(schema, "meta"), h))
                               ELSE schema
                  /\ lines' = doc
                  /\ i' = 1
                  /\ pc' = "parse"
    /\ UNCHANGED <<stack, current_macro, in_workflow, workflow_steps, returned>>
    /\ UNCHANGED validator_vars

\* The converter has just been constructed: main() calls parse_file once on
\* a converter it has just made.
New == pc = "start"

ParseFile == New /\ parse_file(Headers, Documents(Catalogue))

ParseMacroFile == New /\ parse_file({None}, Documents(MacroCatalogue))

ParseWorkflowFile == New /\ parse_file({None}, Documents(WorkflowCatalogue))

ParseDirectiveFile == New /\ parse_file({None}, Documents(DirectiveCatalogue))

\* The first compilation of a run that compiles more than once.
ParseRepeatFile ==
    New /\ returned = <<>> /\ parse_file(Headers, Documents(RepeatCatalogue))

\* The number of compilations of a run that compiles more than once.
MaxCompilations == 2

\* UCPLSchemaConverter(): after a compilation has returned, a new converter
\* is made; lines and header keep the content of the file that was read.
Construct ==
    /\ pc = "done"
    /\ Len(returned) < MaxCompilations
    /\ schema' = InitSchema
    /\ current_macro' = None
    /\ in_workflow' = FALSE
    /\ workflow_steps' = <<>>
    /\ stack' = <<>>
    /\ i' = 1
    /\ pc' = "start"
    /\ UNCHANGED <<lines, header, returned>>
    /\ UNCHANGED validator_vars

\* parse_file on a new converter, for the file that was compiled before.
ParseSameFile ==
    New /\ Len(returned) > 0 /\ parse_file({header}, {lines})

ParseReuseFile == New /\ parse_file({None}, Documents(ReuseCatalogue))

\* The number of calls of parse_file on one converter.
MaxCalls == 2

\* parse_file called again on a converter whose parse_file has returned:
\* the constructor is the only place where the attributes are initialised.
ParseAgain ==
    /\ pc = "done"
    /\ Len(returned) < MaxCalls
    /\ parse_file(Headers, Documents(ReuseCatalogue))

ParseMalformedFile ==
    New /\ parse_file({None}, Documents(MalformedCatalogue) \cup {DeepDocument})

\* The top-level loop is over: parse_file cleans the schema up and returns it.
Return ==
    /\ AtTopLevel
    /\ i > Len(lines)
    /\ schema' = cleanup_schema(schema)
    /\ pc' = "done"
    /\ UNCHANGED <<lines, i, stack, current_macro, in_workflow, workflow_steps, header>>
    /\ UNCHANGED validator_vars
    /\ returned' = Append(returned, Schema')

\* parse_file returns self.schema and nothing else: the converter keeps no
\* list of warnings or diagnostics.
Diagnostics == <<>>

Init ==
    /\ returned = <<>>
    /\ header = None
    /\ lines = <<>>
    /\ i = 1
    /\ stack = <<>>
    /\ schema = InitSchema
    /\ current_macro = None
    /\ in_workflow = FALSE
    /\ workflow_steps = <<>>
    /\ pc = "start"
    /\ errors = <<>>
    /\ warnings = <<>>
    /\ info = <<>>
    /\ file_path = None
    /\ is_valid = FALSE
    /\ ucpl_files = <<>>
    /\ file_index = 1
    /\ valid_count = 0
    /\ total_count = 0
    /\ printed = <<>>
    /\ validation = "new"

Next ==
    \/ ParseFile
    \/ TopLevelLine
    \/ MacroLine
    \/ MacroReturn
    \/ WorkflowLine
    \/ WorkflowReturn
    \/ Return

Spec == Init /\ [][Next]_vars

\* The converter on documents about macros, tasks and constraints.
NextMacro ==
    \/ ParseMacroFile
    \/ TopLevelLine
    \/ MacroLine
    \/ MacroReturn
    \/ WorkflowLine
    \/ WorkflowReturn
    \/ Return

SpecMacro == Init /\ [][NextMacro]_vars

\* The converter on documents about workflows and steps.
NextWorkflow ==
    \/ ParseWorkflowFile
    \/ TopLevelLine
    \/ MacroLine
    \/ MacroReturn
    \/ WorkflowLine
    \/ WorkflowReturn
    \/ Return

SpecWorkflow == Init /\ [][NextWorkflow]_vars

\* The converter on documents about "@chain:", tool invocations and list
\* directives.
NextDirective ==
    \/ ParseDirectiveFile
    \/ TopLevelLine
    \/ MacroLine
    \/ MacroReturn
    \/ WorkflowLine
    \/ WorkflowReturn
    \/ Return

SpecDirective == Init /\ [][NextDirective]_vars

\* One file compiled MaxCompilations times, each time by a new converter.
NextRepeat ==
    \/ ParseRepeatFile
    \/ ParseSameFile
    \/ Construct
    \/ TopLevelLine
    \/ MacroLine
    \/ MacroReturn
    \/ WorkflowLine
    \/ WorkflowReturn
    \/ Return

SpecRepeat == Init /\ [][NextRepeat]_vars

\* One converter whose parse_file is called MaxCalls times.
NextReuse ==
    \/ ParseReuseFile
    \/ ParseAgain
    \/ TopLevelLine
    \/ MacroLine
    \/ MacroReturn
    \/ WorkflowLine
    \/ WorkflowReturn
    \/ Return

SpecReuse == Init /\ [][NextReuse]_vars

\* The converter on documents with malformed lines and on the deeply nested
\* document.
NextMalformed ==
    \/ ParseMalformedFile
    \/ TopLevelLine
    \/ MacroLine
    \/ MacroReturn
    \/ WorkflowLine
    \/ WorkflowReturn
    \/ Return

SpecMalformed == Init /\ [][NextMalformed]_vars

L_scope == <<"@", "s", "c", "o", "p", "e", ":", " ", "s">>

L_role_in == <<" ", " ", "@", "r", "o", "l", "e", ":", " ", "e">>

\* The lines of the documents with directives inside macro bodies.
MacroBodyCatalogue ==
    {L_def_a, L_role, L_role_in, L_scope, L_principles, L_use_store, L_workflow,
     L_if, L_until, L_tool, L_step_1, L_must_x}

ParseMacroBodyFile == New /\ parse_file({None}, Documents(MacroBodyCatalogue))

\* The converter on documents with directives inside macro bodies.
NextMacroBody ==
    \/ ParseMacroBodyFile
    \/ TopLevelLine
    \/ MacroLine
    \/ MacroReturn
    \/ WorkflowLine
    \/ WorkflowReturn
    \/ Return

SpecMacroBody == Init /\ [][NextMacroBody]_vars

\* The lines of the documents about the order of the steps.
SequenceCatalogue == {L_plain, L_workflow, L_step_1, L_tool, L_until, L_if, L_def_a}

\* The number of lines of the longest of these documents.
MaxSequenceLines == 5

SequenceDocuments ==
    {doc \in UNION {[1..n -> SequenceCatalogue] : n \in 1..MaxSequenceLines} :
        Stripped(doc)}

ParseSequenceFile == New /\ parse_file({None}, SequenceDocuments)

\* The converter on documents about the order of the steps.
NextSequence ==
    \/ ParseSequenceFile
    \/ TopLevelLine
    \/ MacroLine
    \/ MacroReturn
    \/ WorkflowLine
    \/ WorkflowReturn
    \/ Return

SpecSequence == Init /\ [][NextSequence]_vars

\* The lines of the documents that define a macro more than once.
RedefinitionCatalogue ==
    {L_def_a, L_must_x_in, L_opt_y_in, L_task_focus, L_workflow, L_plain}

RedefinitionDocuments ==
    {doc \in UNION {[1..n -> RedefinitionCatalogue] : n \in 1..MaxSequenceLines} :
        Stripped(doc)}

ParseRedefinitionFile == New /\ parse_file({None}, RedefinitionDocuments)

\* The converter on documents that define a macro more than once.
NextRedefinition ==
    \/ ParseRedefinitionFile
    \/ TopLevelLine
    \/ MacroLine
    \/ MacroReturn
    \/ WorkflowLine
    \/ WorkflowReturn
    \/ Return

SpecRedefinition == Init /\ [][NextRedefinition]_vars

(***************************************************************************)
(* The validator (src/scripts/validate_ucpl.py).  A file is its path, the  *)
(* answer of Path.exists and its text; the text is the sequence of its     *)
(* lines, joined with newlines where the code searches the whole text.     *)
(* A message is the fixed text of its f-string and the text put in it.     *)
(***************************************************************************)
Newline == "\n"

\* \s of the re module, and the characters str.strip() removes.
Space == Whitespace \cup {Newline}

\* "\n".join(ls): the text of a file from its lines.
RECURSIVE join_lines(_)
join_lines(ls) ==
    IF Len(ls) = 0 THEN <<>>
    ELSE IF Len(ls) = 1 THEN ls[1]
    ELSE ls[1] \o <<Newline>> \o join_lines(Tail(ls))

\* s.strip() of a text of several lines.
strip_text(s) ==
    LET n == span(s, Space)
        t == drop(s, n)
        RECURSIVE tail_span(_)
        tail_span(u) ==
            IF Len(u) > 0 /\ u[Len(u)] \in Space
            THEN 1 + tail_span(take(u, Len(u) - 1)) ELSE 0
    IN take(t, Len(t) - tail_span(t))

\* ", ".join(parts)
RECURSIVE join_comma(_)
join_comma(parts) ==
    IF Len(parts) = 0 THEN <<>>
    ELSE IF Len(parts) = 1 THEN parts[1]
    ELSE parts[1] \o <<",", " ">> \o join_comma(Tail(parts))

DigitSeq == <<"0", "1", "2", "3", "4", "5", "6", "7", "8", "9">>

\* str(n) for an int n >= 0.
RECURSIVE str_int(_)
str_int(n) ==
    IF n < 10 THEN <<DigitSeq[n + 1]>>
    ELSE str_int(n \div 10) \o <<DigitSeq[(n % 10) + 1]>>

\* A float, kept as the text str() gives for it.
PyFloat(text) == [float |-> text]

IsStr(v) == "str" \in DOMAIN v

IsInt(v) == "int" \in DOMAIN v

IsFloat(v) == "float" \in DOMAIN v

\* str(v), as an f-string writes a value of the header.
str_value(v) ==
    IF IsNone(v) THEN <<"N", "o", "n", "e">>
    ELSE IF IsStr(v) THEN v.str
    ELSE IF IsInt(v) THEN str_int(v.int)
    ELSE v.float

\* header.get(key)
get(h, key) == IF Has(h, key) THEN Get(h, key) ELSE None

F_format == <<"f", "o", "r", "m", "a", "t">>

F_version == <<"v", "e", "r", "s", "i", "o", "n">>

F_parser == <<"p", "a", "r", "s", "e", "r">>

F_description == <<"d", "e", "s", "c", "r", "i", "p", "t", "i", "o", "n">>

F_spec_url == <<"s", "p", "e", "c", "_", "u", "r", "l">>

F_updated == <<"u", "p", "d", "a", "t", "e", "d">>

F_tags == <<"t", "a", "g", "s">>

F_strict == <<"s", "t", "r", "i", "c", "t">>

REQUIRED_FIELDS == <<F_format, F_version, F_parser>>

VALID_PARSERS ==
    <<<<"u", "c", "p", "l", "-", "s", "t", "a", "n", "d", "a", "r", "d">>,
      <<"u", "c", "p", "l", "-", "m", "i", "n", "i", "m", "a", "l">>,
      <<"u", "c", "p", "l", "-", "e", "x", "t", "e", "n", "d", "e", "d">>,
      <<"u", "c", "p", "l", "-", "s", "t", "r", "i", "c", "t">>>>

SUPPORTED_VERSIONS == <<<<"1", ".", "0">>, <<"1", ".", "1">>>>

\* x in q, for a list q.
InList(x, q) == \E k \in 1..Len(q) : q[k] = x

Message(text, arg) == [text |-> text, arg |-> arg]

\* The validator object: its three lists.
Validator(e, w, n) == [errors |-> e, warnings |-> w, info |-> n]

\* UCPLValidator()
NewValidator == Validator(<<>>, <<>>, <<>>)

errors_append(self, text, arg) ==
    [self EXCEPT !.errors = Append(@, Message(text, arg))]

warnings_append(self, text, arg) ==
    [self EXCEPT !.warnings = Append(@, Message(text, arg))]

info_append(self, text, arg) ==
    [self EXCEPT !.info = Append(@, Message(text, arg))]

\* What a method of the validator gives back: the validator after the call
\* and the value returned.
Gives(self, value) == [self |-> self, value |-> value]

(***************************************************************************)
(* The regular expressions of the validator, found anywhere in the text    *)
(* as re.search does.                                                      *)
(***************************************************************************)
\* The number of characters of the text in which the UUIP comment is
\* looked for.
UuipWindow == 200

\* The number of characters of the text in which validate_directory looks
\* for "format: ucpl".
QuickWindow == 500

\* s[:n]
prefix(s, n) == IF Len(s) <= n THEN s ELSE take(s, n)

\* The pattern <!--\s*UCPL:\s*Expand with UUIP\s+v[\d.]+.*?--> matched at
\* the start of s: "." matches no newline, so the comment closes on the
\* line of its version.
uuip_at(s) ==
    /\ startswith(s, <<"<", "!", "-", "-">>)
    /\ LET s1 == drop(s, 4)
           s2 == drop(s1, span(s1, Space))
       IN /\ startswith(s2, <<"U", "C", "P", "L", ":">>)
          /\ LET s3 == drop(s2, 5)
                 s4 == drop(s3, span(s3, Space))
             IN /\ startswith(s4, <<"E", "x", "p", "a", "n", "d", " ", "w", "i", "t", "h", " ", "U", "U", "I", "P">>)
                /\ LET s5 == drop(s4, 16)
                       n  == span(s5, Space)
                       s6 == drop(s5, n)
                   IN /\ n >= 1
                      /\ startswith(s6, <<"v">>)
                      /\ Len(s6) >= 2
                      /\ s6[2] \in Digits \cup {"."}
                      /\ LET s7 == drop(s6, 2)
                             k  == find(s7, <<"-", "-", ">">>)
                         IN /\ k > 0
                            /\ ~contains(take(s7, k - 1), <<Newline>>)

\* _check_uuip_comment
check_uuip_comment(content) ==
    LET window == prefix(content, UuipWindow) IN
    \E k \in 1..Len(window) : uuip_at(drop(window, k - 1))

\* A line that the pattern ^---\s*$ matches under re.MULTILINE: \s* takes
\* no "-", so a match lies on the line it starts on.
is_delimiter(line) ==
    /\ startswith(line, <<"-", "-", "-">>)
    /\ span(drop(line, 3), Space) = Len(line) - 3

\* The indices of the lines that match the delimiter pattern, in order.
RECURSIVE delimiters_from(_, _)
delimiters_from(ls, k) ==
    IF k > Len(ls) THEN <<>>
    ELSE (IF is_delimiter(ls[k]) THEN <<k>> ELSE <<>>) \o delimiters_from(ls, k + 1)

matches(ls) == delimiters_from(ls, 1)

\* re.search(r'@\w+:', s)
has_directive(s) ==
    \E k \in 1..Len(s) :
        /\ s[k] = "@"
        /\ LET rest == drop(s, k)
               n    == span(rest, WordChars)
           IN n >= 1 /\ Len(rest) > n /\ rest[n + 1] = ":"

\* re.search(r'!\w+', s)
has_constraint(s) ==
    \E k \in 1..(Len(s) - 1) : s[k] = "!" /\ s[k + 1] \in WordChars

\* re.search(r'>\s*\w+', s)
has_output(s) ==
    \E k \in 1..Len(s) :
        /\ s[k] = ">"
        /\ LET rest == drop(s, k)
               n    == span(rest, Space)
           IN Len(rest) > n /\ rest[n + 1] \in WordChars

(***************************************************************************)
(* yaml.safe_load on the headers of the model: lines "key: value" with a   *)
(* plain scalar as value make a mapping, lines without a colon make one    *)
(* plain scalar, and every other text is a YAML error.                     *)
(***************************************************************************)
\* The characters of a plain scalar of the model.
PlainChars == WordChars \cup {"-", ".", " "}

IsPlain(s) ==
    /\ Len(s) > 0
    /\ s[1] \in WordChars
    /\ \A k \in 1..Len(s) : s[k] \in PlainChars

\* A line "key: value".
IsEntry(line) ==
    LET k == find(line, <<":", " ">>) IN
    /\ k > 1
    /\ span(line, WordChars) = k - 1
    /\ IsPlain(strip(drop(line, k + 1)))

\* The value of a plain scalar: an int, a float or a str.
scalar(s) ==
    LET n == span(s, Digits) IN
    IF n >= 1 /\ n = Len(s) THEN PyInt(int(s))
    ELSE IF /\ n >= 1 /\ Len(s) > n + 1 /\ s[n + 1] = "."
            /\ span(drop(s, n + 1), Digits) = Len(s) - n - 1
         THEN LET frac    == drop(s, n + 1)
                  RECURSIVE zeros(_)
                  zeros(u) == IF Len(u) > 1 /\ u[Len(u)] = "0"
                              THEN 1 + zeros(take(u, Len(u) - 1)) ELSE 0
              IN PyFloat(str_int(int(take(s, n))) \o <<".">>
                         \o take(frac, Len(frac) - zeros(frac)))
         ELSE PyStr(s)

\* The mapping of the lines "key: value": a key that comes again takes the
\* later value.
RECURSIVE mapping(_, _)
mapping(ls, d) ==
    IF Len(ls) = 0 THEN d
    ELSE LET k == find(ls[1], <<":", " ">>) IN
         mapping(Tail(ls), Put(d, take(ls[1], k - 1), scalar(strip(drop(ls[1], k + 1)))))

\* The lines of a plain scalar, folded into one line.
RECURSIVE fold(_)
fold(ls) ==
    IF Len(ls) = 1 THEN strip(ls[1]) ELSE strip(ls[1]) \o <<" ">> \o fold(Tail(ls))

YAMLError == [yaml_error |-> TRUE]

IsYAMLError(v) == "yaml_error" \in DOMAIN v

safe_load(ls) ==
    IF Len(ls) = 0 THEN None
    ELSE IF \A k \in 1..Len(ls) : IsEntry(ls[k]) THEN mapping(ls, EmptyDict)
    ELSE IF \A k \in 1..Len(ls) : IsPlain(strip(ls[k])) /\ ~contains(ls[k], <<":">>)
         THEN PyStr(fold(ls))
    ELSE YAMLError

(***************************************************************************)
(* The methods of UCPLValidator.                                           *)
(***************************************************************************)
\* The lines of a text without the blank lines at its start and its end,
\* as strip() leaves them.
RECURSIVE strip_lines(_)
strip_lines(ls) ==
    IF Len(ls) = 0 THEN ls
    ELSE IF Len(strip(ls[1])) = 0 THEN strip_lines(Tail(ls))
    ELSE IF Len(strip(ls[Len(ls)])) = 0 THEN strip_lines(take(ls, Len(ls) - 1))
    ELSE ls

\* _extract_yaml_header: None, or what yaml.safe_load makes of the text
\* between the first two delimiters.
extract_yaml_header(self, ls) ==
    LET m == matches(ls) IN
    IF Len(m) < 2 THEN Gives(self, None)
    ELSE LET yaml_content == strip_lines(SubSeq(ls, m[1] + 1, m[2] - 1))
             loaded       == safe_load(yaml_content)
         IN IF IsYAMLError(loaded)
            THEN Gives(errors_append(self, "Invalid YAML syntax: ", <<>>), None)
            ELSE Gives(self, loaded)

\* field in header: a key of a dict, a part of a str.
in_header(field, h) == IF IsDict(h) THEN Has(h, field) ELSE contains(h.str, field)

\* [field for field in self.REQUIRED_FIELDS if field not in header]
missing_fields(h) == SelectSeq(REQUIRED_FIELDS, LAMBDA field : ~in_header(field, h))

\* _validate_required_fields
validate_required_fields(self, h) ==
    LET missing == missing_fields(h) IN
    IF Len(missing) > 0
    THEN Gives(errors_append(self, "Missing required fields: ", join_comma(missing)), FALSE)
    ELSE Gives(self, TRUE)

\* The version of the header as _validate_field_values compares it: the
\* str of an int or a float, and any other value as it is.
version_of(h) ==
    LET version == get(h, F_version) IN
    IF IsInt(version) \/ IsFloat(version) THEN PyStr(str_value(version)) ELSE version

\* _validate_field_values with a header whose version is not supported
\* counted as not valid.
validate_field_values_strict(self, h) ==
    LET format_ok  == get(h, F_format) = PyStr(<<"u", "c", "p", "l">>)
        version    == version_of(h)
        version_ok == IsStr(version) /\ InList(version.str, SUPPORTED_VERSIONS)
        parser     == get(h, F_parser)
        parser_ok  == IsStr(parser) /\ InList(parser.str, VALID_PARSERS)
        s1 == IF format_ok THEN self
              ELSE errors_append(self, "Invalid format: ", str_value(get(h, F_format)))
        s2 == IF version_ok THEN s1
              ELSE warnings_append(s1, "Unsupported version: ", str_value(version))
        s3 == IF parser_ok THEN s2
              ELSE warnings_append(s2, "Unknown parser: ", str_value(parser))
    IN Gives(s3, format_ok /\ version_ok)

\* _validate_field_values
validate_field_values(self, h) ==
    LET format_ok  == get(h, F_format) = PyStr(<<"u", "c", "p", "l">>)
        version    == version_of(h)
        version_ok == IsStr(version) /\ InList(version.str, SUPPORTED_VERSIONS)
        parser     == get(h, F_parser)
        parser_ok  == IsStr(parser) /\ InList(parser.str, VALID_PARSERS)
        s1 == IF format_ok THEN self
              ELSE errors_append(self, "Invalid format: ", str_value(get(h, F_format)))
        s2 == IF version_ok THEN s1
              ELSE warnings_append(s1, "Unsupported version: ", str_value(version))
        s3 == IF parser_ok THEN s2
              ELSE warnings_append(s2, "Unknown parser: ", str_value(parser))
    IN Gives(s3, format_ok)

\* _check_recommended_fields
check_recommended_fields(self, h) ==
    LET s1 == IF ~Has(h, F_description)
              THEN warnings_append(self, "Recommended field missing: 'description'", <<>>)
              ELSE self
        s2 == IF ~Has(h, F_spec_url)
              THEN warnings_append(s1, "Recommended field missing: 'spec_url'", <<>>)
              ELSE s1
        s3 == IF ~Has(h, F_updated)
              THEN info_append(s2, "Optional field missing: 'updated'", <<>>)
              ELSE s2
        s4 == IF ~Has(h, F_tags)
              THEN info_append(s3, "Optional field missing: 'tags'", <<>>)
              ELSE s3
    IN IF IsNone(get(h, F_strict))
       THEN info_append(s4, "Consider setting 'strict: true'", <<>>)
       ELSE s4

\* _extract_ucpl_content
extract_ucpl_content(ls) ==
    LET m == matches(ls) IN
    IF Len(m) < 2 THEN <<>>
    ELSE strip_text(join_lines(SubSeq(ls, m[2] + 1, Len(ls))))

\* any(re.search(pattern, content) for pattern in ucpl_patterns)
has_ucpl(content) ==
    has_directive(content) \/ has_constraint(content) \/ has_output(content)

\* _validate_ucpl_content
validate_ucpl_content(self, content) ==
    IF Len(content) = 0
    THEN Gives(errors_append(self, "No UCPL content found after YAML header", <<>>), FALSE)
    ELSE IF ~has_ucpl(content)
    THEN Gives(warnings_append(self, "No UCPL syntax detected", <<>>), TRUE)
    ELSE Gives(self, TRUE)

\* A file of the model: its path, what Path.exists answers, and its lines.
File(path, exists, ls) == [path |-> path, exists |-> exists, lines |-> ls]

\* file_path.read_text(encoding='utf-8')
read_text(file) == join_lines(file.lines)

\* How a call ends: it returns a value or it raises.
Returned(self, value) == [self |-> self, raised |-> FALSE, value |-> value]

Raised(self) == [self |-> self, raised |-> TRUE, value |-> FALSE]

\* validate_file without the three clear() calls at its start.
validate_file_keeps_lists(self, file) ==
    IF ~file.exists
    THEN Returned(errors_append(self, "File not found: ", file.path), FALSE)
    ELSE
    LET content == read_text(file)
        s1 == IF ~check_uuip_comment(content)
              THEN warnings_append(self, "Missing UUIP reference comment", <<>>)
              ELSE self
        h  == extract_yaml_header(s1, file.lines)
    IN
    IF IsNone(h.value)
    THEN Returned(errors_append(h.self, "No valid YAML header found", <<>>), FALSE)
    ELSE
    LET r == validate_required_fields(h.self, h.value) IN
    IF ~r.value THEN Returned(r.self, FALSE)
    ELSE IF ~IsDict(h.value) THEN Raised(r.self)
    ELSE
    LET f == validate_field_values(r.self, h.value) IN
    IF ~f.value THEN Returned(f.self, FALSE)
    ELSE
    LET c == check_recommended_fields(f.self, h.value)
        u == validate_ucpl_content(c, extract_ucpl_content(file.lines))
    IN
    IF ~u.value THEN Returned(u.self, FALSE)
    ELSE Returned(u.self, Len(u.self.errors) = 0)

\* validate_file: the three lists are cleared, then the checks are made in
\* order and the first one that fails returns False.  A header that is a
\* str with the three required names in it has no get(): the call raises
\* AttributeError.
validate_file(self, file) ==
    IF ~file.exists
    THEN Returned(errors_append(NewValidator, "File not found: ", file.path), FALSE)
    ELSE
    LET content == read_text(file)
        s1 == IF ~check_uuip_comment(content)
              THEN warnings_append(NewValidator, "Missing UUIP reference comment", <<>>)
              ELSE NewValidator
        h  == extract_yaml_header(s1, file.lines)
    IN
    IF IsNone(h.value)
    THEN Returned(errors_append(h.self, "No valid YAML header found", <<>>), FALSE)
    ELSE
    LET r == validate_required_fields(h.self, h.value) IN
    IF ~r.value THEN Returned(r.self, FALSE)
    ELSE IF ~IsDict(h.value) THEN Raised(r.self)
    ELSE
    LET f == validate_field_values(r.self, h.value) IN
    IF ~f.value THEN Returned(f.self, FALSE)
    ELSE
    LET c == check_recommended_fields(f.self, h.value)
        u == validate_ucpl_content(c, extract_ucpl_content(file.lines))
    IN
    IF ~u.value THEN Returned(u.self, FALSE)
    ELSE Returned(u.self, Len(u.self.errors) = 0)

(***************************************************************************)
(* The files of the model.                                                 *)
(***************************************************************************)
V_uuip == <<"<", "!", "-", "-", " ", "U", "C", "P", "L", ":", " ", "E", "x", "p", "a", "n", "d", " ", "w", "i", "t", "h", " ", "U", "U", "I", "P", " ", "v", "1", ".", "0", " ", "-", "-", ">">>

V_delimiter == <<"-", "-", "-">>

V_format == <<"f", "o", "r", "m", "a", "t", ":", " ", "u", "c", "p", "l">>

V_format_x == <<"f", "o", "r", "m", "a", "t", ":", " ", "x">>

V_version == <<"v", "e", "r", "s", "i", "o", "n", ":", " ", "1", ".", "0">>

V_version_2 == <<"v", "e", "r", "s", "i", "o", "n", ":", " ", "2">>

V_parser == <<"p", "a", "r", "s", "e", "r", ":", " ", "u", "c", "p", "l", "-", "s", "t", "a", "n", "d", "a", "r", "d">>

V_parser_q == <<"p", "a", "r", "s", "e", "r", ":", " ", "q">>

\* A header that is one plain scalar with the three required names in it.
V_scalar == <<"f", "o", "r", "m", "a", "t", " ", "v", "e", "r", "s", "i", "o", "n", " ", "p", "a", "r", "s", "e", "r">>

\* A header with a flow sequence that is not closed.
V_open == <<"f", "o", "r", "m", "a", "t", ":", " ", "[">>

V_task == <<"@", "t", "a", "s", "k", ":", " ", "x">>

V_output == <<"x", " ", ">", " ", "y">>

\* The number of lines between the delimiters of a file.
MaxHeaderLines == 3

HeaderCatalogue ==
    {V_format, V_format_x, V_version, V_version_2, V_parser, V_parser_q,
     V_scalar, V_open}

HeaderTexts == UNION {[1..n -> HeaderCatalogue] : n \in 0..MaxHeaderLines}

\* The lines after the header: none, plain text, or UCPL.
Bodies == {<<>>, <<L_plain>>, <<V_task>>, <<L_must_x>>, <<V_output>>}

\* What comes before the first delimiter.
Openings == {<<>>, <<V_uuip>>}

\* The texts: no delimiter, one delimiter, or a header between two.
Texts ==
    {o \o b : o \in Openings, b \in Bodies}
    \cup {o \o <<V_delimiter>> \o h : o \in Openings, h \in HeaderTexts}
    \cup {o \o <<V_delimiter>> \o h \o <<V_delimiter>> \o b :
              o \in Openings, h \in HeaderTexts, b \in Bodies}

\* The files validate_file is called on: a file that is no longer there,
\* and a file for every text.
Files ==
    {File(<<"g", "o", "n", "e", ".", "m", "d">>, FALSE, <<>>)} \cup {File(<<"f", "i", "l", "e", ".", "m", "d">>, TRUE, t) : t \in Texts}

\* The files of the directories: a valid file, a valid file with warnings,
\* a file with a field missing, a file with nothing after its header, a
\* file without header, a file whose header is a plain scalar, and a file
\* that validate_directory passes over.
D_valid ==
    File(<<"v", "a", "l", "i", "d", ".", "m", "d">>, TRUE,
         <<V_uuip, V_delimiter, V_format, V_version, V_parser, V_delimiter, V_task>>)

D_warned ==
    File(<<"w", "a", "r", "n", "e", "d", ".", "m", "d">>, TRUE,
         <<V_delimiter, V_format, V_version_2, V_parser_q, V_delimiter, L_plain>>)

D_missing ==
    File(<<"m", "i", "s", "s", "i", "n", "g", ".", "m", "d">>, TRUE, <<V_delimiter, V_format, V_delimiter, L_plain>>)

D_empty ==
    File(<<"e", "m", "p", "t", "y", ".", "m", "d">>, TRUE,
         <<V_delimiter, V_format, V_version, V_parser, V_delimiter>>)

D_headless == File(<<"h", "e", "a", "d", "l", "e", "s", "s", ".", "m", "d">>, TRUE, <<V_uuip, V_format, L_plain>>)

D_scalar ==
    File(<<"s", "c", "a", "l", "a", "r", ".", "m", "d">>, TRUE, <<V_delimiter, V_scalar, V_delimiter, V_format>>)

D_other == File(<<"o", "t", "h", "e", "r", ".", "m", "d">>, TRUE, <<V_delimiter, V_format_x, V_delimiter, L_plain>>)

DirectoryFiles ==
    {D_valid, D_warned, D_missing, D_empty, D_headless, D_scalar, D_other}

\* The number of .md files of a directory.
MaxFiles == 3

\* list(directory.rglob("*.md"))
Listings == UNION {[1..n -> DirectoryFiles] : n \in 0..MaxFiles}

(***************************************************************************)
(* The runs of the validator.                                              *)
(***************************************************************************)
\* What print_results writes: the path, the verdict and the three lists.
Report(file, valid, self) ==
    [file_path |-> file.path, valid |-> valid, errors |-> self.errors,
     warnings |-> self.warnings, info |-> self.info]

\* The validator object of the state.
Self == Validator(errors, warnings, info)

\* main() on a path that is a file: a validator is made, validate_file is
\* called once and its result printed.  The file may be gone when
\* validate_file asks for it.
ValidateFile ==
    /\ validation = "new"
    /\ \E file \in Files :
         \E r \in {validate_file(Self, file)} :
            /\ file_path' = file
            /\ errors' = r.self.errors
            /\ warnings' = r.self.warnings
            /\ info' = r.self.info
            /\ is_valid' = r.value
            /\ printed' = IF r.raised THEN printed
                          ELSE Append(printed, Report(file, r.value, r.self))
            /\ validation' = IF r.raised THEN "raised" ELSE "done"
    /\ UNCHANGED <<ucpl_files, file_index, valid_count, total_count>>
    /\ UNCHANGED converter_vars

\* validate_directory up to its loop: a validator is made and the .md
\* files are listed; without files it returns (0, 0).
ValidateDirectory ==
    /\ validation = "new"
    /\ \E listing \in Listings :
          /\ ucpl_files' = listing
          /\ validation' = IF Len(listing) = 0 THEN "done" ELSE "directory"
    /\ errors' = NewValidator.errors
    /\ warnings' = NewValidator.warnings
    /\ info' = NewValidator.info
    /\ file_index' = 1
    /\ valid_count' = 0
    /\ total_count' = 0
    /\ UNCHANGED <<file_path, is_valid, printed>>
    /\ UNCHANGED converter_vars

\* 'format: ucpl' not in content[:500]
passed_over(file) == ~contains(prefix(read_text(file), QuickWindow), V_format)

\* One iteration of the loop of validate_directory: a file without
\* "format: ucpl" is passed over, any other file is validated, printed
\* and counted.
DirectoryFile ==
    /\ validation = "directory"
    /\ file_index <= Len(ucpl_files)
    /\ \E file \in {ucpl_files[file_index]} :
         IF passed_over(file)
         THEN /\ file_index' = file_index + 1
              /\ UNCHANGED <<errors, warnings, info, file_path, is_valid,
                             valid_count, total_count, printed, validation>>
         ELSE \E r \in {validate_file(Self, file)} :
                 /\ file_path' = file
                 /\ total_count' = total_count + 1
                 /\ errors' = r.self.errors
                 /\ warnings' = r.self.warnings
                 /\ info' = r.self.info
                 /\ is_valid' = r.value
                 /\ printed' = IF r.raised THEN printed
                               ELSE Append(printed, Report(file, r.value, r.self))
                 /\ valid_count' = IF ~r.raised /\ r.value
                                   THEN valid_count + 1 ELSE valid_count
                 /\ file_index' = IF r.raised THEN file_index ELSE file_index + 1
                 /\ validation' = IF r.raised THEN "raised" ELSE "directory"
    /\ UNCHANGED ucpl_files
    /\ UNCHANGED converter_vars

\* The loop is over: validate_directory returns (valid_count, total_count).
DirectoryReturn ==
    /\ validation = "directory"
    /\ file_index > Len(ucpl_files)
    /\ validation' = "done"
    /\ UNCHANGED <<errors, warnings, info, file_path, is_valid, ucpl_files,
                   file_index, valid_count, total_count, printed>>
    /\ UNCHANGED converter_vars

NextValidator ==
    \/ ValidateFile
    \/ ValidateDirectory
    \/ DirectoryFile
    \/ DirectoryReturn

SpecValidator == Init /\ [][NextValidator]_vars

(***************************************************************************)
(* Vocabulary of the properties.  A line is described by how it is         *)
(* written, independently of the operators that parse it.                  *)
(***************************************************************************)

\* This step examines lines[i] and moves the cursor past it.
LineStep == pc = "parse" /\ i' = i + 1

\* This step examines lines[i] in the top-level loop or in the workflow
\* loop, the two places that hand an "@" line to _parse_directive.
DirectiveStep == LineStep /\ (AtTopLevel \/ InWorkflow)

\* This step examines lines[i] in the loop of the macro body.
MacroStep == LineStep /\ InMacro

RECURSIVE Join(_, _)
Join(parts, sep) ==
    IF Len(parts) = 0 THEN <<>>
    ELSE IF Len(parts) = 1 THEN parts[1]
    ELSE parts[1] \o sep \o Join(Tail(parts), sep)

\* lines[k] is non-blank, does not start with two spaces and its first
\* visible character is not "@".
Boundary(k) ==
    LET l == lines[k] IN
    /\ \E j \in 1..Len(l) : l[j] \notin Whitespace
    /\ ~(Len(l) >= 2 /\ l[1] = " " /\ l[2] = " ")
    /\ \A j \in 1..Len(l) :
          (l[j] \notin Whitespace /\ \A h \in 1..(j - 1) : l[h] \in Whitespace)
              => l[j] # "@"

MacroNames == {<<"a">>, <<"b">>}

\* The header "@def <name>:".
HeaderLine(name) == K_def \o name \o <<":">>

\* lines[k] lies after a header "@def <name>:" and before the first
\* boundary line that follows that header.
InBlockOf(name, k) ==
    \E h \in 1..(k - 1) :
        /\ strip(lines[h]) = HeaderLine(name)
        /\ \A j \in (h + 1)..k : ~Boundary(j)

\* lines[k] is a "@task:", "@out:" or constraint line.
ScopedLine(k) ==
    LET l == strip(lines[k]) IN
    \/ startswith(l, K_task)
    \/ startswith(l, K_out)
    \/ Len(l) > 0 /\ l[1] \in {"!", "?", "~"}

\* The step changes macros[name] and nothing else.
WritesOnlyMacro(name) ==
    /\ Has(Get(schema', "macros"), name)
    /\ schema' = Put2(schema, "macros", name, Get(Get(schema', "macros"), name))
    /\ workflow_steps' = workflow_steps

\* The step changes the document-level task, constraints and output and
\* nothing else.
WritesOnlyDocument ==
    /\ DOMAIN schema'.dict = DOMAIN schema.dict
    /\ \A k \in (DOMAIN schema.dict) \ {"task", "constraints", "output"} :
          Get(schema', k) = Get(schema, k)
    /\ workflow_steps' = workflow_steps

\* C1 - Macro scoping: a "@task:", "@out:" or constraint line that lies
\* after a header "@def <name>:" and before the first following boundary
\* line writes only into macros[<name>]; such a line outside every macro
\* block writes only into the document-level task, constraints and output.
C1_MacroScoping ==
    [][(LineStep /\ ScopedLine(i)) =>
          /\ \A name \in MacroNames : InBlockOf(name, i) => WritesOnlyMacro(name)
          /\ (\A name \in MacroNames : ~InBlockOf(name, i)) => WritesOnlyDocument]_vars

ConstraintKinds == {"must", "optional", "avoid"}

\* C2 - Emptiness rule: in the final schema no constraint kind is present
\* with an empty list.
C2_EmptinessRule ==
    pc = "done" =>
        (Has(Schema, "constraints") =>
            \A kind \in ConstraintKinds :
                Has(Get(Schema, "constraints"), kind)
                    => Truthy(Get(Get(Schema, "constraints"), kind)))

\* C3 - Workflow presence: the final schema has a workflow only if a step
\* was produced, and when no step was produced the key "workflow" is
\* omitted.
C3_WorkflowPresence ==
    pc = "done" =>
        /\ (Has(Schema, "workflow") /\ IsDict(Get(Schema, "workflow")))
              => Len(workflow_steps) > 0
        /\ Len(workflow_steps) = 0 => ~Has(Schema, "workflow")

(***************************************************************************)
(* Numbered steps.                                                         *)
(***************************************************************************)
MaxStepNumber == 12

DigitChar(d) == <<"0", "1", "2", "3", "4", "5", "6", "7", "8", "9">>[d + 1]

\* The decimal numeral of n.
RECURSIVE Numeral(_)
Numeral(n) ==
    IF n < 10 THEN <<DigitChar(n)>>
    ELSE Numeral(n \div 10) \o <<DigitChar(n % 10)>>

\* lines[k] is written "<n>. <content>" with a non-empty content.
NumberedLine(k, n) ==
    LET l == strip(lines[k]) IN
    /\ startswith(l, Numeral(n) \o <<".">>)
    /\ Len(l) > Len(Numeral(n)) + 1

\* The numbers of the steps of a step sequence that carry one, in order.
RECURSIVE StepNumbers(_)
StepNumbers(steps) ==
    IF Len(steps) = 0 THEN <<>>
    ELSE (IF Has(Head(steps), "step") THEN <<Get(Head(steps), "step").int>> ELSE <<>>)
         \o StepNumbers(Tail(steps))

\* C4 - Step numbering fidelity: a numbered line examined by the workflow
\* loop appends, at the end of the step sequence, a step whose number is
\* the number written on the line; no step ever changes its number or its
\* position.
C4_StepNumbering ==
    [][/\ \A n \in 0..MaxStepNumber :
             (LineStep /\ InWorkflow /\ NumberedLine(i, n)) =>
                 /\ Len(workflow_steps') = Len(workflow_steps) + 1
                 /\ StepNumbers(workflow_steps') = Append(StepNumbers(workflow_steps), n)
                 /\ Has(workflow_steps'[Len(workflow_steps')], "step")
       /\ \A k \in 1..Len(workflow_steps) :
             /\ Len(workflow_steps') >= k
             /\ Has(workflow_steps'[k], "step") = Has(workflow_steps[k], "step")
             /\ Has(workflow_steps[k], "step") =>
                    Get(workflow_steps'[k], "step") = Get(workflow_steps[k], "step")]_vars

\* Steps 3 and 1 were written in that order and the schema returned lists
\* them in that order.
C4_Witness ==
    /\ pc = "done"
    /\ Has(Schema, "workflow") /\ IsDict(Get(Schema, "workflow"))
    /\ StepNumbers(Get(Get(Schema, "workflow"), "steps").list) = <<3, 1>>

(***************************************************************************)
(* @until                                                                  *)
(***************************************************************************)
UntilConditions == {<<"t">>, <<"a", " ", "@", "u", "n", "t", "i", "l", " ", "b">>}

UntilLine(condition) == K_until \o condition

\* C5 - until attachment: an un-numbered "@until <condition>" line handled
\* while a step exists leaves the number of steps unchanged, sets
\* until = <condition> on the last step and changes nothing else.
C5_UntilAttachment ==
    [][\A c \in UntilConditions :
          (DirectiveStep /\ strip(lines[i]) = UntilLine(c) /\ Len(workflow_steps) > 0) =>
              /\ Len(workflow_steps') = Len(workflow_steps)
              /\ \A k \in 1..(Len(workflow_steps) - 1) :
                    workflow_steps'[k] = workflow_steps[k]
              /\ workflow_steps'[Len(workflow_steps)]
                    = Put(workflow_steps[Len(workflow_steps)], "until", PyStr(c))
              /\ schema' = schema]_vars

\* C6 - @until with no preceding step: the line creates no step, no step
\* gains an "until", and a warning is in the diagnostics returned.
C6_UntilWithoutStep ==
    [][\A c \in UntilConditions :
          (DirectiveStep /\ strip(lines[i]) = UntilLine(c) /\ Len(workflow_steps) = 0) =>
              /\ workflow_steps' = <<>>
              /\ Len(Diagnostics) > 0]_vars

(***************************************************************************)
(* Tool invocations.                                                       *)
(***************************************************************************)
\* Tool invocations as they are written: category, subcategory and, with
\* brackets, the key=value pairs in order.
ToolSpecs ==
    {[category |-> <<"s", "e", "a", "r", "c", "h">>, subcategory |-> <<"w", "e", "b">>, brackets |-> TRUE,
      pairs |-> <<[key |-> <<"q", "u", "e", "r", "y">>, value |-> <<"c", "a", "t", "s">>],
                  [key |-> <<"l", "i", "m", "i", "t">>, value |-> <<"5">>]>>],
     [category |-> <<"s", "e", "a", "r", "c", "h">>, subcategory |-> <<"w", "e", "b">>, brackets |-> FALSE,
      pairs |-> <<>>]}

\* "@@<category>:<subcategory>[k1=v1,...,kn=vn]", or the same without the
\* bracketed list.
ToolLine(t) ==
    K_tool \o t.category \o <<":">> \o t.subcategory \o
    (IF t.brackets
     THEN <<"[">>
          \o Join([k \in 1..Len(t.pairs) |-> t.pairs[k].key \o <<"=">> \o t.pairs[k].value],
                  <<",">>)
          \o <<"]">>
     ELSE <<>>)

\* The record the line stands for.
ToolRecord(t) ==
    LET keys      == {t.pairs[k].key : k \in 1..Len(t.pairs)}
        valueOf(x) == (CHOOSE k \in 1..Len(t.pairs) : t.pairs[k].key = x)
        base      == PyDict(<<"category", "subcategory">>,
                            [category |-> PyStr(t.category),
                             subcategory |-> PyStr(t.subcategory)])
    IN IF t.brackets
       THEN Put(base, "parameters",
                PyDict([k \in 1..Len(t.pairs) |-> t.pairs[k].key],
                       [x \in keys |-> PyStr(t.pairs[valueOf(x)].value)]))
       ELSE base

\* C7 - Tool parameter parsing: a line "@@c:s[k1=v1,...,kn=vn]" yields a
\* record with category c, subcategory s and the parameters map of exactly
\* the pairs ki -> vi; without the bracketed list the record has no
\* "parameters" key.
C7_ToolParameters ==
    [][\A t \in ToolSpecs :
          (DirectiveStep /\ strip(lines[i]) = ToolLine(t)) =>
              /\ Len(workflow_steps') = Len(workflow_steps) + 1
              /\ Has(workflow_steps'[Len(workflow_steps')], "tool")
              /\ Get(workflow_steps'[Len(workflow_steps')], "tool") = ToolRecord(t)]_vars

\* Both forms of the line were parsed: one step has a parameters map and
\* the next has none.
C7_Witness ==
    /\ Len(workflow_steps) = 2
    /\ Has(workflow_steps[1], "tool") /\ Has(workflow_steps[2], "tool")
    /\ Has(Get(workflow_steps[1], "tool"), "parameters")
    /\ DOMAIN Get(Get(workflow_steps[1], "tool"), "parameters").dict
          = {<<"q", "u", "e", "r", "y">>, <<"l", "i", "m", "i", "t">>}
    /\ ~Has(Get(workflow_steps[2], "tool"), "parameters")

(***************************************************************************)
(* @task:                                                                  *)
(***************************************************************************)
\* Task payloads as they are written: the "|"-separated segments.
TaskSpecs == {<<<<"r", "f">>, <<"p", "e", "r", "f">>, <<"r", "e", "a", "d">>>>, <<<<"t", "i", "d", "y">>>>}

TaskLine(segments) == K_task \o <<" ">> \o Join(segments, <<"|">>)

\* The macro whose body the macro loop is parsing.
OpenMacro == stack[Len(stack)].macro_name

\* C8 - Task splitting: a "@task:" line whose payload contains "|" sets the
\* primary task to the segment before the first "|" and the focus list to
\* the remaining segments in source order, in the document or in the open
\* macro.
C8_TaskSplitting ==
    [][\A segments \in TaskSpecs :
          (LineStep /\ strip(lines[i]) = TaskLine(segments) /\ Len(segments) > 1) =>
              /\ DirectiveStep =>
                    /\ Get(Get(schema', "task"), "primary") = PyStr(segments[1])
                    /\ Get(Get(schema', "task"), "focus") = str_list(Tail(segments))
              /\ MacroStep =>
                    LET context == Get(Get(Get(schema', "macros"), OpenMacro), "context") IN
                    /\ Get(context, "task") = PyStr(segments[1])
                    /\ Get(context, "focus") = str_list(Tail(segments))]_vars

\* The schema returned has the primary task and the two focus entries of
\* "@task: rf|perf|read", and a macro has them too.
C8_Witness ==
    /\ pc = "done"
    /\ Has(Schema, "task") /\ Has(Get(Schema, "task"), "focus")
    /\ Get(Get(Schema, "task"), "primary") = PyStr(<<"r", "f">>)
    /\ Get(Get(Schema, "task"), "focus") = PyList(<<PyStr(<<"p", "e", "r", "f">>), PyStr(<<"r", "e", "a", "d">>)>>)
    /\ Has(Schema, "macros")
    /\ \E name \in DOMAIN Get(Schema, "macros").dict :
          Has(Get(Get(Get(Schema, "macros"), name), "context"), "focus")

\* C9 - Task without focus: after a "@task:" line whose payload has no "|",
\* the scope's task is the whole payload and the scope has no focus list.
C9_TaskWithoutFocus ==
    [][\A segments \in TaskSpecs :
          (LineStep /\ strip(lines[i]) = TaskLine(segments) /\ Len(segments) = 1) =>
              /\ DirectiveStep =>
                    /\ Get(Get(schema', "task"), "primary") = PyStr(segments[1])
                    /\ ~Has(Get(schema', "task"), "focus")
              /\ MacroStep =>
                    LET context == Get(Get(Get(schema', "macros"), OpenMacro), "context") IN
                    /\ Get(context, "task") = PyStr(segments[1])
                    /\ ~Has(context, "focus")]_vars

\* Headers that start with "@def " and have no identifier.
MalformedHeaders == {<<"@", "d", "e", "f", " ", ":">>}

\* C10 - Malformed macro header: the line creates no macro, is the only
\* line consumed, opens no block, and a diagnostic is recorded.
C10_MalformedHeader ==
    [][(DirectiveStep /\ strip(lines[i]) \in MalformedHeaders) =>
          /\ Get(schema', "macros") = Get(schema, "macros")
          /\ i' = i + 1
          /\ stack' = stack
          /\ Len(Diagnostics) > 0]_vars

(***************************************************************************)
(* Constraint lines.                                                       *)
(***************************************************************************)
Sigils == {"!", "?", "~"}

\* The constraint kind a sigil stands for.
SigilKind(c) == CASE c = "!" -> "must" [] c = "?" -> "optional" [] c = "~" -> "avoid"

\* The constraints map of the scope that is active: the macro named by
\* current_macro when there is one, otherwise the document.
ActiveConstraints(sch) ==
    IF IsNone(current_macro) THEN Get(sch, "constraints")
    ELSE Get(Get(Get(sch, "macros"), current_macro.str), "constraints")

\* C11 - Constraint collection: every line whose trimmed form starts with
\* "!", "?" or "~" appends exactly one entry, the text after the sigil, at
\* the end of the list of its kind in the active scope (the open macro if
\* there is one, otherwise the document) and leaves the other two lists of
\* that scope as they were.
C11_ConstraintCollection ==
    [][(LineStep /\ Len(strip(lines[i])) > 0 /\ strip(lines[i])[1] \in Sigils) =>
          LET l    == strip(lines[i])
              kind == SigilKind(l[1])
          IN /\ Get(ActiveConstraints(schema'), kind)
                   = ListAppend(Get(ActiveConstraints(schema), kind), PyStr(Tail(l)))
             /\ \A other \in ConstraintKinds \ {kind} :
                   Get(ActiveConstraints(schema'), other)
                       = Get(ActiveConstraints(schema), other)]_vars

\* Every map and every list inside the value v, v included, has at least
\* one entry.
RECURSIVE NoEmptyContainer(_)
NoEmptyContainer(v) ==
    IF IsDict(v)
    THEN DOMAIN v.dict # {} /\ \A k \in DOMAIN v.dict : NoEmptyContainer(v.dict[k])
    ELSE IF IsList(v)
    THEN Len(v.list) > 0 /\ \A k \in 1..Len(v.list) : NoEmptyContainer(v.list[k])
    ELSE TRUE

\* C12 - No empty containers: in the schema returned, no map and no list at
\* any depth is empty (document-level sections, the constraints block and
\* its lists, the sub-fields of every macro).
C12_NoEmptyContainers == pc = "done" => NoEmptyContainer(Schema)

(***************************************************************************)
(* @chain:                                                                 *)
(***************************************************************************)
\* C13 - "@chain:" header: a "@chain:" header handled by the directive
\* dispatch starts the workflow block parser, as a "@workflow:" header
\* does, and a numbered line that follows a "@chain:" header is recorded
\* as a workflow step with its number.
C13_ChainHeader ==
    [][/\ (DirectiveStep /\ strip(lines[i]) = K_chain) => InWorkflow'
       /\ \A n \in 0..MaxStepNumber :
             (LineStep /\ ~InMacro /\ i > 1 /\ NumberedLine(i, n)
                       /\ strip(lines[i - 1]) = K_chain) =>
                 StepNumbers(workflow_steps') = Append(StepNumbers(workflow_steps), n)]_vars

(***************************************************************************)
(* Exceptions.                                                             *)
(***************************************************************************)
\* C14 - Compilation never aborts: whatever the body lines are (malformed
\* "@@", "@def", "@if" and "@for" lines and unrecognized text included), no
\* exception leaves the compiler.
C14_NeverAborts == pc # "raised"

(***************************************************************************)
(* Lines that start with "@@" and are no tool invocation.                  *)
(***************************************************************************)
\* The loop of the top level or of a workflow block is about to examine
\* lines[i].
Dispatches == pc = "parse" /\ ~InMacro /\ i <= Len(lines)

\* l is written "@@<category>:<subcategory>" followed by anything, with a
\* category and a subcategory of one or more letters, digits or "_".
ToolShaped(l) ==
    /\ Len(l) >= 2 /\ l[1] = "@" /\ l[2] = "@"
    /\ \E c \in 4..(Len(l) - 1) :
          /\ l[c] = ":"
          /\ \A j \in 3..(c - 1) : l[j] \in WordChars
          /\ l[c + 1] \in WordChars

\* The record {"action": "unknown"}.
UnknownRecord ==
    PyDict(<<"action">>, [action |-> PyStr(<<"u", "n", "k", "n", "o", "w", "n">>)])

\* C15 - Unknown tool sentinel: a line that starts with "@@" and is not
\* written "@@<category>:<subcategory>" with identifier-shaped category and
\* subcategory, examined by the top-level loop or by the workflow loop,
\* appends the record whose only field is action = "unknown", changes
\* nothing else, raises nothing and moves the cursor to the next line.
C15_UnknownTool ==
    [][(/\ Dispatches
        /\ Len(strip(lines[i])) >= 2
        /\ strip(lines[i])[1] = "@" /\ strip(lines[i])[2] = "@"
        /\ ~ToolShaped(strip(lines[i]))) =>
           /\ workflow_steps' = Append(workflow_steps, UnknownRecord)
           /\ i' = i + 1
           /\ pc' = "parse"
           /\ stack' = stack
           /\ schema' = schema]_vars

\* A malformed "@@" line was followed by a numbered line of a workflow
\* block: the schema returned lists the sentinel record and, after it, the
\* step.
C15_Witness ==
    /\ pc = "done"
    /\ Has(Schema, "workflow") /\ IsDict(Get(Schema, "workflow"))
    /\ Len(workflow_steps) = 2
    /\ workflow_steps[1] = UnknownRecord
    /\ Has(workflow_steps[2], "step")

(***************************************************************************)
(* @principles: and @out:                                                  *)
(***************************************************************************)
\* List payloads as they are written: the segments between the "+" signs,
\* empty ones included; no segment at all is the empty payload.
ListSpecs ==
    {<<<<"a">>, <<>>, <<"b">>>>,
     <<<<"a">>, <<"b">>>>,
     <<<<"j">>, <<"m">>>>,
     <<>>}

\* "<keyword> <segment>+...+<segment>", or the keyword alone.
ListLine(keyword, segments) ==
    IF Len(segments) = 0 THEN keyword
    ELSE keyword \o <<" ">> \o Join(segments, <<"+">>)

\* The segments that are not empty, in order.
NonEmptySegments(segments) == SelectSeq(segments, LAMBDA x : Len(x) > 0)

\* C16 - List directives: a "@principles:" or "@out:" line sets the list of
\* its scope to the non-empty "+"-separated segments of the payload in
\* source order ("a++b" gives ["a", "b"], an empty payload gives no
\* entries), in the document and, for "@out:", in the open macro.
C16_ListDirectives ==
    [][\A segments \in ListSpecs :
          /\ (Dispatches /\ strip(lines[i]) = ListLine(K_principles, segments)) =>
                /\ Has(Get(schema', "context"), "principles")
                /\ Get(Get(schema', "context"), "principles")
                      = str_list(NonEmptySegments(segments))
          /\ (Dispatches /\ strip(lines[i]) = ListLine(K_out, segments)) =>
                /\ Has(Get(schema', "output"), "format")
                /\ Get(Get(schema', "output"), "format")
                      = str_list(NonEmptySegments(segments))
          /\ (pc = "parse" /\ InMacro /\ i <= Len(lines)
                /\ strip(lines[i]) = ListLine(K_out, segments)) =>
                /\ Has(Get(Get(schema', "macros"), OpenMacro), "output")
                /\ Get(Get(Get(schema', "macros"), OpenMacro), "output")
                      = str_list(NonEmptySegments(segments))]_vars

Called == pc \in {"start", "done"} /\ pc' \in {"parse", "raised"}

\* C18 - Fresh state per compilation: every call of parse_file starts the
\* compilation from a fresh document and a fresh step sequence: apart from
\* the header merged into "meta", the schema is the initial one, there is
\* no step, no macro is open and no workflow has been entered.
C18_FreshState ==
    [][Called =>
          /\ pc' = "parse"
          /\ Put(schema', "meta", EmptyDict) = InitSchema
          /\ workflow_steps' = <<>>
          /\ current_macro' = None
          /\ in_workflow' = FALSE]_vars

(***************************************************************************)
(* Cursor progress and termination.                                        *)
(***************************************************************************)
\* The index of the line that started the block parser of a frame: the
\* header line.  The workflow block parser is called with the index after
\* its header, the macro block parser with the index of its header.
HeaderIndex(frame) ==
    IF frame.fn = "parse_workflow" THEN frame.index - 1 ELSE frame.index

\* A block parser returns to the loop that called it.
Returns == pc = "parse" /\ Len(stack') < Len(stack)

\* C19 - While a compilation runs, every step continues it or completes
\* it; the cursor never decreases and never passes the end of the lines; a
\* block parser that returns hands back an index larger than the index of
\* the line that started it; and every step that leaves the cursor where
\* it is returns from a block parser or from the compilation.  The cursor
\* and the depth of the stack then bound the number of steps, so every
\* compilation completes, nested workflow and macro headers included.
C19_CursorProgress ==
    [][pc = "parse" =>
          /\ pc' \in {"parse", "done"}
          /\ i <= i' /\ i' <= Len(lines) + 1
          /\ Returns => HeaderIndex(stack[Len(stack)]) < i'
          /\ i' = i => (Returns \/ pc' = "done")]_vars

(***************************************************************************)
(* The line that ends a block.                                             *)
(***************************************************************************)
\* The loop of a block parser is running.
InBlock == InMacro \/ InWorkflow

\* The list of a kind in the constraints of the document.
DocumentList(sch, kind) == Get(Get(sch, "constraints"), kind)

\* C20 - Block terminator hand-back: a block parser that meets a boundary
\* line (non-blank, not indented, not "@"-prefixed) returns with the cursor
\* on that line, and it returns nowhere else but at the end of the input,
\* so its block ends at the first boundary line; a blank line inside a
\* block is consumed by the block; the cursor never moves back, and only
\* the top-level loop moves it past a boundary line, by one line, so the
\* line is dispatched once; a boundary line with a constraint sigil is
\* then appended to the list of its kind in the document and no macro
\* changes.
C20_TerminatorHandBack ==
    [][pc = "parse" =>
          /\ i' >= i
          /\ (InBlock /\ i <= Len(lines) /\ Boundary(i)) =>
                 (stack' = Pop(stack) /\ i' = i /\ pc' = "parse")
          /\ (InBlock /\ Len(stack') < Len(stack)) =>
                 (i' = i /\ (i <= Len(lines) => Boundary(i)))
          /\ (InBlock /\ i <= Len(lines) /\ Len(strip(lines[i])) = 0) =>
                 (stack' = stack /\ i' = i + 1)
          /\ (i <= Len(lines) /\ Boundary(i) /\ i' # i) =>
                 /\ AtTopLevel
                 /\ i' = i + 1
                 /\ strip(lines[i])[1] \in Sigils =>
                        LET l    == strip(lines[i])
                            kind == SigilKind(l[1])
                        IN /\ DocumentList(schema', kind)
                                 = ListAppend(DocumentList(schema, kind), PyStr(Tail(l)))
                           /\ Get(schema', "macros") = Get(schema, "macros")]_vars

\* A compilation has returned in which the block of macro a held a blank
\* line and ended at the unindented "!x": x is in the must list of the
\* document and the must list of the macro is empty.
C20_Witness ==
    /\ pc = "done"
    /\ lines = <<L_def_a, L_blank, L_must_x>>
    /\ DocumentList(schema, "must") = PyList(<<PyStr(<<"x">>)>>)
    /\ Get(Get(Get(Get(schema, "macros"), <<"a">>), "constraints"), "must") = EmptyList

(***************************************************************************)
(* Macros.                                                                 *)
(***************************************************************************)
\* The schema returned has an entry for the macro.
HasMacro(sch, name) == Has(sch, "macros") /\ Has(Get(sch, "macros"), name)

\* C21 - Macro creation: for every line of the body that is a header
\* "@def <identifier>:", the schema returned has an entry for <identifier>
\* in "macros", also when the header follows the body of another macro
\* with no boundary line in between.
C21_MacroCreation ==
    pc = "done" =>
        \A k \in 1..Len(lines), name \in MacroNames :
            strip(lines[k]) = HeaderLine(name) => HasMacro(Schema, name)

\* A line of a directive that the macro body does not handle.
OtherDirective(l) ==
    startswith(l, <<"@">>) /\ ~startswith(l, K_task) /\ ~startswith(l, K_out)

\* C22 - Other directives inside a macro body are ignored: while a macro
\* block is open, a line that starts with "@" and is neither "@task:" nor
\* "@out:" is consumed by the block and changes neither the schema (the
\* macro and every document-level field) nor the step sequence nor the
\* current macro nor the workflow flag.
C22_OtherDirectivesIgnored ==
    [][(InMacro /\ i <= Len(lines) /\ OtherDirective(strip(lines[i]))) =>
          /\ schema' = schema
          /\ workflow_steps' = workflow_steps
          /\ current_macro' = current_macro
          /\ in_workflow' = in_workflow
          /\ stack' = stack
          /\ i' = i + 1]_vars

\* The block of macro a has consumed "@role: e" and "@@search:web": the
\* document has no role, the macro is as it was created and there is no
\* step.
C22_Witness ==
    /\ pc = "parse"
    /\ lines = <<L_def_a, L_role, L_tool>>
    /\ i = 4
    /\ Len(stack) = 1
    /\ Get(schema, "context") = EmptyDict
    /\ Get(Get(schema, "macros"), <<"a">>) = NewMacro
    /\ workflow_steps = <<>>

\* The macro block parsers that are active.
MacroFrames == {k \in 1..Len(stack) : stack[k].fn = "parse_macro_definition"}

\* C23 - Current-macro scope: current_macro is None whenever the top-level
\* loop or the workflow loop is about to examine a line and when the
\* compilation has returned; while a macro block is parsed it names that
\* macro, and at most one macro block is parsed at a time; every return of
\* the macro block parser, and every header that is malformed, leaves
\* current_macro None.
C23_CurrentMacroScope ==
    /\ [](/\ (AtTopLevel \/ InWorkflow) => IsNone(current_macro)
          /\ InMacro => current_macro = PyStr(OpenMacro)
          /\ pc = "parse" => Cardinality(MacroFrames) <= 1
          /\ pc = "done" => IsNone(current_macro))
    /\ [][/\ (InMacro /\ Returns) => IsNone(current_macro')
          /\ (DirectiveStep /\ strip(lines[i]) \in MalformedHeaders) =>
                 (IsNone(current_macro') /\ stack' = stack)]_vars

\* The block of macro a has been parsed and has returned at the boundary
\* line "!x": the top-level loop is about to examine that line and no
\* macro is current.
C23_Witness ==
    /\ AtTopLevel
    /\ lines = <<L_def_a, L_must_x_in, L_must_x>>
    /\ i = 3
    /\ IsNone(current_macro)
    /\ HasMacro(schema, <<"a">>)

(***************************************************************************)
(* The shape of the steps.                                                 *)
(***************************************************************************)
\* The content of the numbered line lines[k]: what follows "<n>.".
StepContent(k, n) == strip(drop(strip(lines[k]), Len(Numeral(n)) + 1))

\* The workflow loop is about to examine the numbered line lines[i].
NumberedStep(n) == InWorkflow /\ i <= Len(lines) /\ NumberedLine(i, n)

\* The step sequence has grown by one step.
OneStepAppended ==
    /\ Len(workflow_steps') = Len(workflow_steps) + 1
    /\ SubSeq(workflow_steps', 1, Len(workflow_steps)) = workflow_steps

LastStep == workflow_steps'[Len(workflow_steps')]

\* C24 - Numbered step shape: a numbered line "<n>. <content>" examined by
\* the workflow loop appends exactly one step with step = n and an
\* "action": "call_macro" and the macro name for "@use <name>", the task
\* text for "@task:", the condition and the action for "@if", "loop" for
\* "@loop:", and the content itself otherwise.
C24_NumberedStepShape ==
    [][\A n \in 0..MaxStepNumber :
          NumberedStep(n) =>
              LET content == StepContent(i, n) IN
              /\ OneStepAppended
              /\ Get(LastStep, "step") = PyInt(n)
              /\ Has(LastStep, "action")
              /\ startswith(content, K_use) =>
                     /\ Get(LastStep, "action") = PyStr(A_call_macro)
                     /\ Get(LastStep, "macro") = PyStr(split_ws(content)[2])
              /\ (startswith(content, K_task) /\ ~contains(content, K_store)) =>
                     Get(LastStep, "action") = PyStr(strip(drop(content, Len(K_task))))
              /\ startswith(content, K_if) => Has(LastStep, "condition")
              /\ startswith(content, K_loop) =>
                     Get(LastStep, "action") = PyStr(A_loop)
              /\ (\A kw \in {K_use, K_task, K_if, K_loop} : ~startswith(content, kw)) =>
                     Get(LastStep, "action") = PyStr(content)]_vars

\* C25 - Store capture: a numbered "@use <name>" or "@task: <text>" line
\* with one "> $var" appends a step with store = "$var", and for "@task:"
\* the action of the step is <text>, the part of the task before the
\* "> $var"; a numbered "@use" or "@task:" line without "> $" appends a
\* step without "store".
C25_StoreCapture ==
    [][\A n \in 0..MaxStepNumber :
          (NumberedStep(n) /\ \E kw \in {K_use, K_task} : startswith(StepContent(i, n), kw)) =>
              LET content == StepContent(i, n)
                  parts   == split(content, K_store)
              IN /\ OneStepAppended
                 /\ Len(parts) = 2 =>
                        /\ Has(LastStep, "store")
                        /\ Get(LastStep, "store") = PyStr(<<"$">> \o strip(parts[2]))
                        /\ startswith(content, K_task) =>
                               Get(LastStep, "action")
                                   = PyStr(strip(drop(parts[1], Len(K_task))))
                 /\ Len(parts) = 1 => ~Has(LastStep, "store")]_vars

(***************************************************************************)
(* Control-flow headers without a number.                                  *)
(***************************************************************************)
\* <<condition, action>> of the "@if" lines.
IfSpecs == {<<<<"c">>, <<"x">>>>}

IfLine(c) == K_if \o c[1] \o <<":", " ">> \o c[2]

\* <<variable, iterable>> of the "@for" lines.
ForSpecs == {<<<<"$", "x">>, <<"$", "y">>>>}

ForLine(f) == K_for \o f[1] \o <<" ", "i", "n", " ">> \o f[2] \o <<":">>

\* The workflow loop is about to examine the line l.
WorkflowExamines(l) == InWorkflow /\ i <= Len(lines) /\ strip(lines[i]) = l

\* The nested step list of a loop step or of a for_each step, where the
\* step has one.
NestedSteps(s) ==
    IF Has(s, "loop") /\ Has(Get(s, "loop"), "steps") THEN <<Get(Get(s, "loop"), "steps")>>
    ELSE IF Has(s, "action") /\ Get(s, "action") = PyStr(A_for_each) THEN <<Get(s, "steps")>>
    ELSE <<>>

\* C26 - Un-numbered control-flow headers: in a workflow block the line
\* "@if <cond>: <action>" appends one step with that condition and action,
\* "@loop:" appends one loop step, and "@for $x in $y:" appends one
\* for_each step with variable $x and iterable $y; in the schema returned
\* the nested step list of every loop and for_each step is empty.
C26_ControlFlowHeaders ==
    /\ [][/\ \A c \in IfSpecs :
                WorkflowExamines(IfLine(c)) =>
                    /\ OneStepAppended
                    /\ Get(LastStep, "condition") = PyDict(<<"if">>, [if |-> PyStr(c[1])])
                    /\ Get(LastStep, "action") = PyStr(c[2])
          /\ WorkflowExamines(K_loop) =>
                /\ OneStepAppended
                /\ Get(LastStep, "action") = PyStr(A_loop)
                /\ NestedSteps(LastStep) = <<EmptyList>>
          /\ \A f \in ForSpecs :
                WorkflowExamines(ForLine(f)) =>
                    /\ OneStepAppended
                    /\ Get(LastStep, "action") = PyStr(A_for_each)
                    /\ Get(LastStep, "variable") = PyStr(f[1])
                    /\ Get(LastStep, "iterable") = PyStr(f[2])
                    /\ NestedSteps(LastStep) = <<EmptyList>>]_vars
    /\ [](pc = "done" =>
            \A k \in 1..Len(workflow_steps) :
                \A nested \in {NestedSteps(workflow_steps[k])[j] :
                                  j \in 1..Len(NestedSteps(workflow_steps[k]))} :
                    nested = EmptyList)

\* A compilation has returned in which a numbered line followed the
\* "@for" header of a workflow block: the for_each step and the numbered
\* step are two steps of the workflow and the nested list is empty.
C26_Witness ==
    /\ pc = "done"
    /\ lines = <<L_workflow, L_for, L_step_1>>
    /\ Len(workflow_steps) = 2
    /\ Get(workflow_steps[1], "action") = PyStr(A_for_each)
    /\ Get(workflow_steps[1], "steps") = EmptyList
    /\ Get(Get(Schema, "workflow"), "steps") = PyList(workflow_steps)

(***************************************************************************)
(* The one step sequence.                                                  *)
(***************************************************************************)
UseStoreLines == {K_use \o <<"m", " ">> \o K_store \o <<"v">>}

\* A line that, without a number, produces a step wherever a directive is
\* dispatched.
StepLine(l) ==
    \/ startswith(l, K_tool)
    \/ l = K_loop
    \/ \E c \in IfSpecs : l = IfLine(c)
    \/ \E f \in ForSpecs : l = ForLine(f)
    \/ l \in UseStoreLines

\* The step sequence keeps its length and only its last step changes.
OnlyLastStepChanges ==
    /\ Len(workflow_steps') = Len(workflow_steps)
    /\ \A k \in 1..(Len(workflow_steps) - 1) : workflow_steps'[k] = workflow_steps[k]

\* C27 - Single accumulated step sequence: every step-producing line, in a
\* workflow block or at top level, appends one step at the end of the one
\* step sequence; an "@until" line dispatched while a step exists, also
\* after the workflow block has ended, changes the last step and no other;
\* no step of the compilation changes the sequence in another way; and
\* when the schema returned has a workflow, its steps are the whole
\* sequence.
C27_SingleStepSequence ==
    /\ [][pc = "parse" =>
            /\ (Dispatches /\ StepLine(strip(lines[i]))) => OneStepAppended
            /\ (\E n \in 0..MaxStepNumber : NumberedStep(n)) => OneStepAppended
            /\ (Dispatches /\ startswith(strip(lines[i]), K_until)
                    /\ Len(workflow_steps) > 0) =>
                   /\ OnlyLastStepChanges
                   /\ Has(LastStep, "until")
                   /\ LastStep = Put(workflow_steps[Len(workflow_steps)], "until",
                                     Get(LastStep, "until"))
            /\ \/ workflow_steps' = workflow_steps
               \/ OneStepAppended
               \/ OnlyLastStepChanges]_vars
    /\ [](pc = "done" =>
            LET result == returned[Len(returned)] IN
            IsDict(Get(result, "workflow")) =>
                Get(Get(result, "workflow"), "steps") = PyList(workflow_steps))

\* A compilation has returned in which a tool line and an "@until" line
\* followed the end of the workflow block: the workflow returned has the
\* numbered step and then the tool step, which carries the "until".
C27_Witness ==
    /\ pc = "done"
    /\ lines = <<L_workflow, L_step_1, L_plain, L_tool, L_until>>
    /\ LET steps == Get(Get(returned[Len(returned)], "workflow"), "steps").list IN
       /\ Len(steps) = 2
       /\ Get(steps[1], "step") = PyInt(1)
       /\ Get(steps[2], "action") = PyStr(A_invoke_tool)
       /\ Get(steps[2], "until") = PyStr(<<"t">>)

(***************************************************************************)
(* Macro redefinition.                                                     *)
(***************************************************************************)
\* A macro in which no line has recorded anything.
Blank(m) ==
    /\ ~Has(m, "output")
    /\ Get(m, "context") = EmptyDict
    /\ \A kind \in ConstraintKinds : Get(Get(m, "constraints"), kind) = EmptyList

\* C28 - Macro redefinition: when a header "@def <name>:" is parsed as a
\* header while "macros" has an entry for <name>, "macros" keeps the same
\* names, each once, and the entry of <name> holds nothing that a line has
\* recorded: what the first block recorded is gone and the entry is filled
\* by the second block alone.
C28_MacroRedefinition ==
    [][\A name \in MacroNames :
          (DirectiveStep /\ strip(lines[i]) = HeaderLine(name)
               /\ HasMacro(schema, name)) =>
              LET macros == Get(schema', "macros") IN
              /\ DOMAIN macros.dict = DOMAIN Get(schema, "macros").dict
              /\ macros.keys = Get(schema, "macros").keys
              /\ Len(macros.keys) = Cardinality(DOMAIN macros.dict)
              /\ Blank(Get(macros, name))
              /\ InMacro' /\ OpenMacro' = name]_vars

\* A compilation has returned in which macro a was defined with "!x",
\* then, after a boundary line, defined again with "?y": the entry of a
\* has y as optional and an empty must list.
C28_Witness ==
    /\ pc = "done"
    /\ lines = <<L_def_a, L_must_x_in, L_plain, L_def_a, L_opt_y_in>>
    /\ LET a == Get(Get(returned[Len(returned)], "macros"), <<"a">>) IN
       /\ Get(Get(a, "constraints"), "must") = EmptyList
       /\ Get(Get(a, "constraints"), "optional") = PyList(<<PyStr(<<"y">>)>>)

(***************************************************************************)
(* The validator.                                                          *)
(***************************************************************************)
\* A call of validate_file returns in this step: its result is printed.
ValidateReturns == Len(printed') = Len(printed) + 1

\* The texts of the warnings that the validator can give.
WarningTexts ==
    {"Missing UUIP reference comment", "Unsupported version: ", "Unknown parser: ",
     "Recommended field missing: 'description'",
     "Recommended field missing: 'spec_url'", "No UCPL syntax detected"}

\* C29 - Validator verdict: when validate_file returns, it returns True
\* if and only if the error list is empty at that moment, so a call that
\* returns False has recorded an error and warnings or info messages
\* alone never make a file invalid; the same holds of every result that
\* was printed.
C29_ValidatorVerdict ==
    /\ [](\A k \in 1..Len(printed) :
             printed[k].valid <=> Len(printed[k].errors) = 0)
    /\ [][ValidateReturns =>
             /\ is_valid' <=> Len(errors') = 0
             /\ printed'[Len(printed')].valid = is_valid'
             /\ printed'[Len(printed')].errors = errors']_vars

\* validate_file has returned True for a file with every warning the
\* validator can give and with info messages.
C29_Witness ==
    /\ validation = "done"
    /\ Len(printed) = 1
    /\ is_valid
    /\ {warnings[k].text : k \in 1..Len(warnings)} = WarningTexts
    /\ Len(info) > 0
    /\ Len(errors) = 0

\* What a validator that has validated nothing gives for a file.
Alone(file) == validate_file(NewValidator, file)

\* C30 - Validator isolation between files: when validate_file returns
\* for a file, whatever the validator has validated before, the three
\* lists and the verdict that are printed are those a new validator gives
\* for that file alone; so two results printed for the same file in one
\* run are equal, whatever their positions.
C30_ValidatorIsolation ==
    /\ [](\A j, k \in 1..Len(printed) :
             printed[j].file_path = printed[k].file_path => printed[j] = printed[k])
    /\ [][ValidateReturns =>
             /\ Alone(file_path') = Returned(Validator(errors', warnings', info'), is_valid')
             /\ printed'[Len(printed')] =
                    Report(file_path', is_valid', Validator(errors', warnings', info'))]_vars

\* validate_directory has validated a file with warnings, then a file with
\* an error, then the first file again: the first and the third result are
\* equal and valid, the second is not valid.
C30_Witness ==
    /\ validation = "done"
    /\ Len(printed) = 3
    /\ printed[1].valid /\ Len(printed[1].warnings) > 0
    /\ ~printed[2].valid /\ Len(printed[2].errors) > 0
    /\ printed[3] = printed[1]

====
